---------------------------- MODULE Spec2Model ----------------------------
(***************************************************************************)
(* Model of the Allen-Bradley PLC toolkit (ab_poller).                     *)
(*                                                                         *)
(* The repository holds three copies of the tag-discovery engine:          *)
(*   "discovery_tool" : src/discovery_tool.py  (class ABTagDiscovery)      *)
(*   "consolidated"   : src/plc_toolkit_consolidated.py (class PLCToolkit) *)
(*   "toolkit"        : src/toolkit.py (connect_and_discover + main)       *)
(* plus the SQLite repository (DatabaseManager) and two copies of the      *)
(* case-insensitive path resolver (PLCToolkit._find_case_insensitive_tag   *)
(* and tag_checker_tool.run_checker).  The variable `variant` selects the  *)
(* copy a behaviour runs.                                                  *)
(*                                                                         *)
(* Tag and member names are sequences of one-character strings, so that    *)
(* startswith, lower, split and join are computed as Python computes them. *)
(* Type names are atomic strings; a Python str value is the record         *)
(* [form, of]: form "name" is the display string `of`, form "repr" is the  *)
(* text str() yields for a non-string (a descriptor dict or an object).    *)
(***************************************************************************)
EXTENDS Integers, Sequences, FiniteSets, TLC

VARIABLES
    variant,          \* which copy of the engine runs
    pc,               \* position of the discovery run
    connected,        \* plc.connected
    initial_tag_list, \* merged summaries, each [tag_name, has_dt, data_type]
    failed_scopes,    \* discovery_tool.py: names of the scopes whose listing threw
    programs,         \* program names still to be listed (value of PROGRAM)
    idx,              \* loop index of the per-tag loop (1-based)
    parsed_tags,      \* the local dict parsed_tags (consolidated, toolkit)
    tags,             \* self.tags / results['tags']
    outcome,          \* result of the discovery call: "none", "success", "failure"
    stored,           \* outcome of the repository write: "none", "ok", "failed"
    g_scopes,         \* ghost: what every list call answered, in call order
    g_progread,       \* ghost: how reading PROGRAM ended
    g_info,           \* ghost: per name, how the last get_tag_info for it ended
    g_cause,          \* ghost: what made the discovery call fail, "none" if nothing did
    db_disk,          \* committed content of the database file
    db_conn,          \* content as seen through the open connection
    db_intxn,         \* the connection has an open transaction
    g_upserts,        \* ghost: per endpoint, the last successful upsert
    g_calls,          \* ghost: number of update_plc_data calls so far
    g_partial,        \* ghost: endpoints whose controller row a failed call wrote
    raw_def,          \* input of _parse_structure_def
    parse_out,        \* its result
    res_tags,         \* TagSet given to the path resolver
    res_path,         \* user path given to the path resolver
    res_impl,         \* which resolver copy runs
    res_out,          \* resolver result
    rd_issued,        \* paths handed to plc.read by the current read request
    rd_report,        \* what the read request reported
    poll_impl,        \* which poller copy runs
    p_pc,             \* the polling thread's position
    readings,         \* the deque of the running poll
    p_tick,           \* ticks begun by the running poll
    remaining,        \* time left in the wait between ticks
    stop_event,       \* stop_polling_event / self.stop_monitoring
    listener,         \* the listen_for_stop thread
    p_polls,          \* polls started so far
    g_log,            \* ghost: every tick record of the running poll
    g_faults,         \* ghost: reads that did not give a value
    g_after_stop,     \* ghost: reads made while the stop event was set
    g_prev,           \* ghost: the previous poll left a non-empty history
    g_cut,            \* ghost: a wait ended before its interval was over
    s_impl,           \* which session class is used
    s_plc,            \* self.plc: "none" or "driver"
    s_connected,      \* self.plc.connected
    g_ops,            \* ghost: the connect / disconnect calls made so far
    fallback_warnings, \* per-tag fallback warnings printed and logged
    t_impl,           \* which program the threads belong to
    m_pc,             \* the main thread's position
    w_pc,             \* the animated_task worker thread's position
    w_idx,            \* the protocol call the worker makes next
    done_event,       \* animated_task's done_event
    l_pc,             \* the listen_for_stop thread's position
    t_stop,           \* the poller's stop event
    inflight,         \* protocol calls begun and not yet returned
    g_interrupted,    \* ghost: the user interrupted the main thread
    ex_impl,          \* which exporter runs
    ex_pc,            \* position of the export run
    ex_tags,          \* the TagSet being exported (self.tags / self.parsed_tags)
    ex_rows,          \* the rows appended to the worksheet
    ex_json,          \* the JSON document written
    ex_xml,           \* the XML document written
    c_impl,           \* which tag-checker loop runs
    c_pc,             \* position of the tag-checker session
    c_tags,           \* the TagSet the session resolves against
    last_tag,         \* last_successful_tag / last_tag; <<>> is None
    c_passes,         \* passes of the prompt loop so far
    g_reads,          \* ghost: the single reads made, with how each ended
    g_polled,         \* ghost: the paths the poller was started on
    r_pc,             \* position of a run: connect, discovery, clean-up
    r_runs,           \* runs begun so far
    r_failed,         \* the run's connect or discovery failed
    g_opened          \* ghost: open() succeeded in this run

discVars == <<pc, connected, initial_tag_list, failed_scopes, programs, idx,
              parsed_tags, tags, outcome, stored, g_scopes, g_progread,
              g_info, g_cause>>
dbVars == <<db_disk, db_conn, db_intxn, g_upserts, g_calls, g_partial>>
parseVars == <<raw_def, parse_out>>
resVars == <<res_tags, res_path, res_impl, res_out>>
readVars == <<rd_issued, rd_report>>
pollVars == <<poll_impl, p_pc, readings, p_tick, remaining, stop_event, listener,
              p_polls, g_log, g_faults, g_after_stop, g_prev, g_cut>>
sessVars == <<s_impl, s_plc, s_connected, g_ops>>
logVars == <<fallback_warnings>>
thrVars == <<t_impl, m_pc, w_pc, w_idx, done_event, l_pc, t_stop, inflight, g_interrupted>>
exVars == <<ex_impl, ex_pc, ex_tags, ex_rows, ex_json, ex_xml>>
chkVars == <<c_impl, c_pc, c_tags, last_tag, c_passes, g_reads, g_polled>>
runVars == <<r_pc, r_runs, r_failed, g_opened>>
moreVars == <<exVars, chkVars, runVars>>
opVars == <<readVars, pollVars, sessVars, logVars, thrVars, moreVars>>
vars == <<variant, discVars, dbVars, parseVars, resVars, opVars>>

Variants == {"discovery_tool", "consolidated", "toolkit"}

----------------------------------------------------------------------------
(* Names *)

Dunder == <<"_", "_">>
SystemPrefix == <<"S", "y", "s", "t", "e", "m", ":">>
ProgramPrefix == <<"P", "r", "o", "g", "r", "a", "m", ":">>
Dot == "."

\* str.startswith
StartsWith(s, p) == Len(s) >= Len(p) /\ SubSeq(s, 1, Len(p)) = p

\* str.lower on one character of the alphabet the model uses
LowerChar(c) ==
    CASE c = "A" -> "a" [] c = "B" -> "b" [] c = "C" -> "c" [] c = "I" -> "i" [] c = "M" -> "m"
      [] c = "P" -> "p" [] c = "Q" -> "q" [] c = "S" -> "s" [] c = "T" -> "t"
      [] c = "X" -> "x" [] c = "Y" -> "y"
      [] OTHER -> c

\* str.lower
Lower(s) == [i \in 1..Len(s) |-> LowerChar(s[i])]

----------------------------------------------------------------------------
(* Python values met at the protocol boundary *)

\* a value of the 'data_type' field: a str, a descriptor dict (with optional
\* 'name' and optional 'internal_tags'), or an object exposing .name
PyStr(s) == [py |-> "str", name |-> s, hasName |-> FALSE, hasIt |-> FALSE, it |-> <<>>]
PyObj(s) == [py |-> "obj", name |-> s, hasName |-> TRUE, hasIt |-> FALSE, it |-> <<>>]
PyDict(hasName, s, hasIt, it) ==
    [py |-> "dict", name |-> s, hasName |-> hasName, hasIt |-> hasIt, it |-> it]

\* a raw tag definition: a dict that may or may not hold 'data_type'
TagDef(dt) == [has_dt |-> TRUE, data_type |-> dt]
TagDefNoType == [has_dt |-> FALSE, data_type |-> PyStr("")]

\* one entry of an insertion-ordered dict
Item(k, v) == [k |-> k, v |-> v]

\* a Python str value
Name(s) == [form |-> "name", of |-> s]
Repr(s) == [form |-> "repr", of |-> s]

\* str(x)
Str(v) == IF v.py = "str" THEN Name(v.name) ELSE Repr(v.name)

----------------------------------------------------------------------------
(* Resolved nodes.  In the code a Leaf is a bare str and a Structured node *)
(* is a dict with '_data_type_' and 'members'; "raw" is a protocol value   *)
(* stored as it came (neither a str nor a dict with 'members').            *)

Leaf(t) == [kind |-> "leaf", ty |-> t, members |-> <<>>]
Struct(t, ms) == [kind |-> "struct", ty |-> t, members |-> ms]
RawNode(v) == [kind |-> "raw", ty |-> [form |-> v.py, of |-> v.name], members |-> <<>>]

\* dict operations on insertion-ordered dicts kept as sequences of items
Keys(d) == [i \in 1..Len(d) |-> d[i].k]
KeySet(d) == {d[i].k : i \in 1..Len(d)}
HasKey(d, k) == \E i \in 1..Len(d) : d[i].k = k
DictGet(d, k) == d[CHOOSE i \in 1..Len(d) : d[i].k = k].v
\* d[k] = v: an existing key keeps its place, a new key goes last
DictSet(d, k, v) ==
    IF HasKey(d, k)
    THEN [i \in 1..Len(d) |-> IF d[i].k = k THEN Item(k, v) ELSE d[i]]
    ELSE Append(d, Item(k, v))

----------------------------------------------------------------------------
(* _parse_structure_def *)

\* get_type_name: discovery_tool.py has no hasattr(.., 'name') branch
get_type_name(v, data_type_value) ==
    IF data_type_value.py = "dict"
    THEN (IF data_type_value.hasName THEN Name(data_type_value.name) ELSE Name("STRUCT"))
    ELSE IF v # "discovery_tool" /\ data_type_value.py = "obj"
         THEN Name(data_type_value.name)
         ELSE Str(data_type_value)

\* members_source: tag_def['data_type'].get('internal_tags') when data_type is
\* a dict, else None; None and the empty dict are both falsy
MembersSource(tag_def) ==
    IF tag_def.has_dt /\ tag_def.data_type.py = "dict" /\ tag_def.data_type.hasIt
    THEN tag_def.data_type.it
    ELSE <<>>

\* a member loop without its filter
MemberKeptAll(member_name) == TRUE

\* the member filter of the loop over members_source.items()
MemberKept(member_name) == ~StartsWith(member_name, Dunder)

RECURSIVE parse_structure_def(_, _)
RECURSIVE ParseMembers(_, _)

ParseMembers(v, items) ==
    IF items = <<>> THEN <<>>
    ELSE LET rest == ParseMembers(v, SubSeq(items, 1, Len(items) - 1))
             last == items[Len(items)]
         IN IF MemberKept(last.k)
            THEN DictSet(rest, last.k, parse_structure_def(v, last.v))
            ELSE rest

parse_structure_def(v, tag_def) ==
    LET members_source == MembersSource(tag_def)
    IN IF members_source = <<>>
       THEN Leaf(IF tag_def.has_dt THEN get_type_name(v, tag_def.data_type)
                 ELSE Name("Unknown"))
       ELSE Struct(get_type_name(v, tag_def.data_type),
                   ParseMembers(v, members_source))

----------------------------------------------------------------------------
(* JSON text, as json.dumps writes it and json.loads reads it back *)

KeyDataType == <<"_", "d", "a", "t", "a", "_", "t", "y", "p", "e", "_">>
KeyMembers == <<"m", "e", "m", "b", "e", "r", "s">>

JStr(s) == [j |-> "str", s |-> s, items |-> <<>>]
JObj(items) == [j |-> "obj", s |-> Name(""), items |-> items]

\* an encoder that writes a node's type name only
DumpNodeTypeOnly(n) == JStr(n.ty)

RECURSIVE DumpNode(_)
RECURSIVE DumpDict(_)

\* json.dumps of a str or of a dict {'_data_type_': .., 'members': {..}}
DumpNode(n) ==
    IF n.kind = "struct"
    THEN JObj(<<Item(KeyDataType, JStr(n.ty)), Item(KeyMembers, DumpDict(n.members))>>)
    ELSE JStr(n.ty)

DumpDict(d) == JObj([i \in 1..Len(d) |-> Item(d[i].k, DumpNode(d[i].v))])

\* json.dumps raises TypeError on a value that is neither str nor dict
RECURSIVE Serializable(_)
Serializable(d) ==
    \A i \in 1..Len(d) :
        /\ d[i].v.kind # "raw"
        /\ Serializable(d[i].v.members)

json_dumps(tagset) == DumpDict(tagset)

RECURSIVE LoadNode(_)
RECURSIVE LoadDict(_)

\* json.loads: a JSON string is a str, a JSON object a dict; the dict is a
\* Structured node when it holds the key 'members'
LoadNode(jv) ==
    IF jv.j = "str" THEN Leaf(jv.s)
    ELSE IF HasKey(jv.items, KeyMembers)
         THEN Struct(IF HasKey(jv.items, KeyDataType)
                     THEN DictGet(jv.items, KeyDataType).s ELSE Name("STRUCT"),
                     LoadDict(DictGet(jv.items, KeyMembers)))
         ELSE [kind |-> "raw", ty |-> [form |-> "dict", of |-> ""], members |-> <<>>]

LoadDict(jv) == [i \in 1..Len(jv.items) |-> Item(jv.items[i].k, LoadNode(jv.items[i].v))]

json_loads(jv) == LoadDict(jv)

----------------------------------------------------------------------------
(* DatabaseManager: tables plcs and tag_data, one sqlite3 connection *)

Endpoint(ip, slot) == [ip |-> ip, slot |-> slot]
EmptyDb == [plcs |-> {}, tag_data |-> {}]

Max(S) == CHOOSE x \in S : \A y \in S : y <= x

\* INTEGER PRIMARY KEY without a value: one more than the largest rowid
NextRowId(plcs) == IF plcs = {} THEN 1 ELSE Max({r.id : r \in plcs}) + 1

\* INSERT INTO plcs .. ON CONFLICT(ip_address, slot) DO UPDATE SET name, revision, last_scan
UpsertPlcs(plcs, ep, info, scan_time) ==
    IF \E r \in plcs : r.ep = ep
    THEN {IF r.ep = ep
          THEN [r EXCEPT !.name = info.plc_name, !.revision = info.revision,
                         !.last_scan = scan_time]
          ELSE r : r \in plcs}
    ELSE plcs \cup {[id |-> NextRowId(plcs), ep |-> ep, name |-> info.plc_name,
                     revision |-> info.revision, last_scan |-> scan_time]}

\* SELECT id FROM plcs WHERE ip_address = ? AND slot = ?  (fetchone()[0])
SelectPlcId(plcs, ep) == (CHOOSE r \in plcs : r.ep = ep).id

\* INSERT OR IGNORE in place of ON CONFLICT DO UPDATE
UpsertTagDataKeepOld(tag_data, plc_id, tags_json) ==
    IF \E r \in tag_data : r.plc_id = plc_id
    THEN tag_data
    ELSE tag_data \cup {[plc_id |-> plc_id, tags_json |-> tags_json]}

\* INSERT INTO tag_data .. ON CONFLICT(plc_id) DO UPDATE SET tags_json
UpsertTagData(tag_data, plc_id, tags_json) ==
    IF \E r \in tag_data : r.plc_id = plc_id
    THEN {IF r.plc_id = plc_id THEN [r EXCEPT !.tags_json = tags_json] ELSE r
          : r \in tag_data}
    ELSE tag_data \cup {[plc_id |-> plc_id, tags_json |-> tags_json]}

\* DatabaseManager.get_tag_data: json.loads of the row, {} when there is none
get_tag_data(db, plc_id) ==
    IF \E r \in db.tag_data : r.plc_id = plc_id
    THEN json_loads((CHOOSE r \in db.tag_data : r.plc_id = plc_id).tags_json)
    ELSE <<>>

Faults == {"none", "first", "second"}

\* DatabaseManager.update_plc_data(ip, slot, info, tags), as the effect on
\* the connection `conn` and the file `disk`.  `fault` is where sqlite3
\* raises: "first" at the plcs statement, "second" at the tag_data statement;
\* json.dumps raises between the two on a value it cannot encode.  The first
\* statement opens the implicit transaction; only the final conn.commit()
\* ends it, and no path rolls back.
update_plc_data(conn, disk, intxn, ep, info, tagset, fault, scan_time) ==
    LET plcs1 == UpsertPlcs(conn.plcs, ep, info, scan_time)
        plc_id == SelectPlcId(plcs1, ep)
        done == [plcs |-> plcs1,
                 tag_data |-> UpsertTagData(conn.tag_data, plc_id, json_dumps(tagset))]
    IN IF fault = "first"
       THEN [conn |-> conn, disk |-> disk, intxn |-> intxn, returned |-> FALSE,
             wrote_plcs |-> FALSE]
       ELSE IF fault = "second" \/ ~Serializable(tagset)
       THEN [conn |-> [conn EXCEPT !.plcs = plcs1], disk |-> disk, intxn |-> TRUE,
             returned |-> FALSE, wrote_plcs |-> TRUE]
       ELSE [conn |-> done, disk |-> done, intxn |-> FALSE, returned |-> TRUE,
             wrote_plcs |-> TRUE]

\* one call of update_plc_data on the model's connection, with the ghosts
CallUpdate(ep, info, tagset, fault) ==
    LET scan_time == g_calls + 1
        r == update_plc_data(db_conn, db_disk, db_intxn, ep, info, tagset, fault, scan_time)
    IN /\ g_calls' = scan_time
       /\ db_conn' = r.conn
       /\ db_disk' = r.disk
       /\ db_intxn' = r.intxn
       /\ g_upserts' = IF r.returned
                       THEN DictSet(g_upserts, ep,
                                    [tags |-> tagset, call |-> scan_time,
                                     n |-> IF HasKey(g_upserts, ep)
                                           THEN DictGet(g_upserts, ep).n + 1 ELSE 1])
                       ELSE g_upserts
       /\ g_partial' = IF r.wrote_plcs /\ ~r.returned
                       THEN g_partial \cup {scan_time} ELSE g_partial

\* whether update_plc_data returns (TRUE) or raises (FALSE)
UpdateReturns(tagset, fault) == fault = "none" /\ Serializable(tagset)

\* conn.close() with an open transaction discards it; a new process opens a
\* new connection on the committed file
DbReopen ==
    /\ db_conn' = db_disk
    /\ db_intxn' = FALSE
    /\ UNCHANGED <<db_disk, g_upserts, g_calls, g_partial>>

DbInit ==
    /\ db_disk = EmptyDb
    /\ db_conn = EmptyDb
    /\ db_intxn = FALSE
    /\ g_upserts = <<>>
    /\ g_calls = 0
    /\ g_partial = {}

----------------------------------------------------------------------------
(* What the controller may answer during a discovery run *)

MaxListLen == 1     \* summaries in one get_tag_list answer
MaxProgs == 1       \* program names in the value of PROGRAM

nMt == <<"M", "t">>
nCt == <<"c", "t">>
nHidden == Dunder \o <<"h">>
nSys == SystemPrefix \o <<"s">>
nX == <<"x">>
nY == Dunder \o <<"y">>
nSp == <<"S", "p">>
nIn == <<"I", "n">>
nPad == Dunder \o <<"p">>
nSysMember == SystemPrefix \o <<"m">>

\* a summary of get_tag_list: {'tag_name': .., 'data_type': ..}
Summary(n, dt) == [tag_name |-> n, has_dt |-> TRUE, data_type |-> dt]
SummaryNoType(n) == [tag_name |-> n, has_dt |-> FALSE, data_type |-> PyStr("")]

\* the shallow descriptor of a structure tag in a summary
ShallowUdt == PyDict(TRUE, "MOTOR_UDT", TRUE, <<Item(nSp, TagDef(PyStr("REAL")))>>)

ControllerSummaries ==
    {Summary(nMt, ShallowUdt), Summary(nCt, PyStr("INT")),
     Summary(nHidden, PyStr("INT")), Summary(nSys, PyStr("INT"))}
ProgramSummaries == {Summary(nX, PyObj("TIMER")), SummaryNoType(nY)}

SeqsUpTo(S, n) == UNION {[1..k -> S] : k \in 0..n}

ProgramNames == <<<<"P">>, <<"Q">>, <<"R">>>>
ProgramValues == {SubSeq(ProgramNames, 1, k) : k \in 1..MaxProgs}

\* the full definitions get_tag_info may return
DefInt == TagDef(PyStr("INT"))
DefMotor ==
    TagDef(PyDict(TRUE, "MOTOR_UDT", TRUE,
        <<Item(nSp, TagDef(PyStr("REAL"))),
          Item(nPad, TagDef(PyStr("SINT"))),
          Item(nSysMember, TagDef(PyStr("BOOL"))),
          Item(nIn, TagDef(PyDict(FALSE, "", TRUE,
                       <<Item(nX, TagDef(PyObj("TIMER")))>>)))>>))
DiscoveryDefs == {DefInt, DefMotor}

----------------------------------------------------------------------------
(* The discovery run *)

TheEndpoint == Endpoint("10.0.0.5", 0)
TheInfo == [plc_name |-> "L71", revision |-> "32.11"]

\* a per-tag test without the 'System:' clause
SkippedOnlyDunder(name) == name = <<>> \/ StartsWith(name, Dunder)

\* the test of the per-tag loop: not name or name.startswith('__') or
\* name.startswith('System:')
Skipped(name) ==
    name = <<>> \/ StartsWith(name, Dunder) \/ StartsWith(name, SystemPrefix)

\* f"Program:{prog_name}.{tag['tag_name']}"
ProgramScoped(prog_name, tag_name) == ProgramPrefix \o prog_name \o <<Dot>> \o tag_name

\* a fallback that drops the summary's type
FallbackUnknown(v, summary) == Leaf(Name("UNKNOWN"))

\* the except branch of the per-tag loop: discovery_tool.py stores
\* summary.get('data_type', 'UNKNOWN') as it is; the two toolkits store
\* dt.name when dt has that attribute and str(dt) otherwise
Fallback(v, summary) ==
    IF ~summary.has_dt THEN Leaf(Name("UNKNOWN"))
    ELSE IF v = "discovery_tool"
         THEN (IF summary.data_type.py = "str" THEN Leaf(Name(summary.data_type.name))
               ELSE RawNode(summary.data_type))
         ELSE (IF summary.data_type.py = "obj" THEN Leaf(Name(summary.data_type.name))
               ELSE Leaf(Str(summary.data_type)))

\* where the run goes once every scope was listed: discovery_tool.py returns
\* False on an empty merged list, the toolkits enter the loop regardless
AfterListing(itl) ==
    IF variant = "discovery_tool" /\ itl = <<>>
    THEN /\ pc' = "done"
         /\ outcome' = "failure"
         /\ g_cause' = "empty"
    ELSE /\ pc' = "process"
         /\ outcome' = outcome
         /\ g_cause' = g_cause

DiscInit ==
    /\ pc = "connect"
    /\ connected = FALSE
    /\ initial_tag_list = <<>>
    /\ failed_scopes = <<>>
    /\ programs = <<>>
    /\ idx = 1
    /\ parsed_tags = <<>>
    /\ tags = <<>>
    /\ outcome = "none"
    /\ stored = "none"
    /\ g_scopes = <<>>
    /\ g_progread = "none"
    /\ g_info = <<>>
    /\ g_cause = "none"

\* connect(): LogixDriver(...).open() and get_plc_info()
Connect(ok) ==
    /\ pc = "connect"
    /\ connected' = ok
    /\ pc' = IF ok THEN "list_ctrl" ELSE "ended"
    /\ outcome' = IF ~ok /\ variant = "toolkit" THEN "failure" ELSE outcome
    /\ g_cause' = IF ~ok /\ variant = "toolkit" THEN "connect" ELSE g_cause
    /\ UNCHANGED <<variant, initial_tag_list, failed_scopes, programs, idx,
                   parsed_tags, tags, stored, g_scopes, g_progread, g_info,
                   dbVars, parseVars, resVars, opVars>>

\* plc.get_tag_list() for the controller scope.  discovery_tool.py wraps the
\* call in try/except and records the scope; the toolkits do not guard it,
\* so the exception leaves discover_tags / reaches the outer handler of
\* connect_and_discover (which closes the connection).
ListControllerTags(threw, answer) ==
    /\ pc = "list_ctrl"
    /\ g_scopes' = Append(g_scopes, [scope |-> <<>>, threw |-> threw,
                                     answer |-> IF threw THEN <<>> ELSE answer])
    /\ IF threw
       THEN IF variant = "discovery_tool"
            THEN /\ failed_scopes' = Append(failed_scopes, "Controller Scope")
                 /\ pc' = "read_prog"
                 /\ UNCHANGED <<initial_tag_list, outcome, g_cause, connected>>
            ELSE /\ pc' = "done"
                 /\ outcome' = "failure"
                 /\ g_cause' = "list"
                 /\ connected' = IF variant = "toolkit" THEN FALSE ELSE connected
                 /\ UNCHANGED <<initial_tag_list, failed_scopes>>
       ELSE /\ initial_tag_list' = initial_tag_list \o answer
            /\ pc' = "read_prog"
            /\ UNCHANGED <<failed_scopes, outcome, g_cause, connected>>
    /\ UNCHANGED <<variant, programs, idx, parsed_tags, tags, stored,
                   g_progread, g_info, dbVars, parseVars, resVars, opVars>>

\* a PROGRAM read whose failure ends the run
ReadProgramFatal(how, value) ==
    /\ pc = "read_prog"
    /\ g_progread' = how
    /\ IF how = "value"
       THEN /\ programs' = value
            /\ pc' = "list_prog"
            /\ UNCHANGED outcome
       ELSE /\ programs' = <<>>
            /\ pc' = "done"
            /\ outcome' = "failure"
    /\ UNCHANGED <<variant, connected, initial_tag_list, failed_scopes, idx,
                   parsed_tags, tags, stored, g_scopes, g_info, g_cause,
                   dbVars, parseVars, resVars, opVars>>

\* plc.read('PROGRAM'): raises, answers without a value, or answers the
\* program names
ReadProgram(how, value) ==
    /\ pc = "read_prog"
    /\ g_progread' = how
    /\ IF how = "value"
       THEN /\ programs' = value
            /\ pc' = "list_prog"
            /\ UNCHANGED <<outcome, g_cause>>
       ELSE /\ programs' = <<>>
            /\ AfterListing(initial_tag_list)
    /\ UNCHANGED <<variant, connected, initial_tag_list, failed_scopes, idx,
                   parsed_tags, tags, stored, g_scopes, g_info,
                   dbVars, parseVars, resVars, opVars>>

\* plc.get_tag_list(program=prog_name) for the next program, inside its own
\* try/except; the names of the answer are rewritten before the extend
ListProgramTags(threw, answer) ==
    /\ pc = "list_prog"
    /\ programs # <<>>
    /\ LET prog_name == Head(programs)
           renamed == [i \in 1..Len(answer) |->
                          [answer[i] EXCEPT !.tag_name = ProgramScoped(prog_name, @)]]
           itl == IF threw THEN initial_tag_list ELSE initial_tag_list \o renamed
       IN /\ g_scopes' = Append(g_scopes, [scope |-> prog_name, threw |-> threw,
                                           answer |-> IF threw THEN <<>> ELSE answer])
          /\ initial_tag_list' = itl
          /\ failed_scopes' = IF threw /\ variant = "discovery_tool"
                              THEN Append(failed_scopes, ProgramPrefix \o prog_name)
                              ELSE failed_scopes
          /\ programs' = Tail(programs)
          /\ IF Tail(programs) = <<>>
             THEN AfterListing(itl)
             ELSE UNCHANGED <<pc, outcome, g_cause>>
    /\ UNCHANGED <<variant, connected, idx, parsed_tags, tags, stored,
                   g_progread, g_info, dbVars, parseVars, resVars, opVars>>

\* one iteration of the per-tag loop on a name the loop skips
SkipTag ==
    /\ pc = "process"
    /\ idx <= Len(initial_tag_list)
    /\ Skipped(initial_tag_list[idx].tag_name)
    /\ idx' = idx + 1
    /\ UNCHANGED <<variant, pc, connected, initial_tag_list, failed_scopes,
                   programs, parsed_tags, tags, outcome, stored, g_scopes,
                   g_progread, g_info, g_cause, dbVars, parseVars, resVars, opVars>>

\* one iteration of the per-tag loop: plc.get_tag_info(name) answers a
\* definition, which is parsed, or raises, and the summary's type is kept.
\* discovery_tool.py writes into self.tags, the toolkits into parsed_tags.
ProcessTag(threw, full_def) ==
    /\ pc = "process"
    /\ idx <= Len(initial_tag_list)
    /\ LET summary == initial_tag_list[idx]
           name == summary.tag_name
           node == IF threw THEN Fallback(variant, summary)
                   ELSE parse_structure_def(variant, full_def)
       IN /\ ~Skipped(name)
          /\ IF variant = "discovery_tool"
             THEN /\ tags' = DictSet(tags, name, node)
                  /\ UNCHANGED parsed_tags
             ELSE /\ parsed_tags' = DictSet(parsed_tags, name, node)
                  /\ UNCHANGED tags
          /\ g_info' = DictSet(g_info, name, [threw |-> threw, summary |-> summary])
    /\ fallback_warnings' = IF threw /\ variant = "discovery_tool"
                            THEN fallback_warnings + 1 ELSE fallback_warnings
    /\ idx' = idx + 1
    /\ UNCHANGED <<variant, pc, connected, initial_tag_list, failed_scopes,
                   programs, outcome, stored, g_scopes, g_progread, g_cause,
                   dbVars, parseVars, resVars, readVars, pollVars, sessVars, thrVars, moreVars>>

\* the end of the loop.  discovery_tool.py returns True; PLCToolkit sets
\* self.tags and returns; connect_and_discover calls plc.get_plc_info()
\* before it sets results['tags'], and an exception there ends the run in
\* results['error'] with the connection closed.
DiscoverReturn(info_ok) ==
    /\ pc = "process"
    /\ idx > Len(initial_tag_list)
    /\ info_ok \/ variant = "toolkit"
    /\ IF variant = "discovery_tool"
       THEN /\ outcome' = "success"
            /\ pc' = "done"
            /\ UNCHANGED <<tags, connected, g_cause>>
       ELSE IF info_ok
       THEN /\ tags' = parsed_tags
            /\ outcome' = "success"
            /\ pc' = "store"
            /\ UNCHANGED <<connected, g_cause>>
       ELSE /\ outcome' = "failure"
            /\ pc' = "done"
            /\ connected' = FALSE
            /\ g_cause' = "plc_info"
            /\ UNCHANGED tags
    /\ UNCHANGED <<variant, initial_tag_list, failed_scopes, programs, idx,
                   parsed_tags, stored, g_scopes, g_progread, g_info,
                   dbVars, parseVars, resVars, opVars>>

\* run_discovery_workflow / main: db.update_plc_data(ip, slot, info, tags).
\* PLCToolkit catches the exception and returns to the menu; toolkit.py's
\* main does not catch it and the process ends.
StoreTags(fault) ==
    /\ pc = "store"
    /\ CallUpdate(TheEndpoint, TheInfo, tags, fault)
    /\ stored' = IF UpdateReturns(tags, fault) THEN "ok" ELSE "failed"
    /\ pc' = IF ~UpdateReturns(tags, fault) /\ variant = "toolkit" THEN "crashed" ELSE "done"
    /\ UNCHANGED <<variant, connected, initial_tag_list, failed_scopes,
                   programs, idx, parsed_tags, tags, outcome, g_scopes,
                   g_progread, g_info, g_cause, parseVars, resVars, opVars>>

NotParsed == [done |-> FALSE, node |-> Leaf(Name(""))]
NotResolved == [done |-> FALSE, found |-> FALSE, path |-> <<>>]

ReadIdle == rd_issued = <<>> /\ rd_report = "none"
PollIdle ==
    /\ poll_impl = "none"
    /\ p_pc = "idle"
    /\ readings = <<>>
    /\ p_tick = 0
    /\ remaining = 0
    /\ stop_event = FALSE
    /\ listener = "none"
    /\ p_polls = 0
    /\ g_log = <<>>
    /\ g_faults = 0
    /\ g_after_stop = 0
    /\ g_prev = FALSE
    /\ g_cut = FALSE
SessIdle == s_impl = "none" /\ s_plc = "none" /\ s_connected = FALSE /\ g_ops = <<>>
LogIdle == fallback_warnings = 0
ThrIdle ==
    /\ t_impl = "none"
    /\ m_pc = "off"
    /\ w_pc = "none"
    /\ w_idx = 1
    /\ done_event = FALSE
    /\ l_pc = "none"
    /\ t_stop = FALSE
    /\ inflight = {}
    /\ g_interrupted = FALSE
NotWritten == [written |-> FALSE, doc |-> <<>>]
ExIdle ==
    /\ ex_impl = "none"
    /\ ex_pc = "off"
    /\ ex_tags = <<>>
    /\ ex_rows = NotWritten
    /\ ex_json = NotWritten
    /\ ex_xml = NotWritten
ChkIdle ==
    /\ c_impl = "none"
    /\ c_pc = "off"
    /\ c_tags = <<>>
    /\ last_tag = <<>>
    /\ c_passes = 0
    /\ g_reads = <<>>
    /\ g_polled = <<>>
RunIdle == r_pc = "off" /\ r_runs = 0 /\ r_failed = FALSE /\ g_opened = FALSE
MoreIdle == ExIdle /\ ChkIdle /\ RunIdle
OpsIdle == ReadIdle /\ PollIdle /\ SessIdle /\ LogIdle /\ ThrIdle /\ MoreIdle

ParseIdle == raw_def = TagDefNoType /\ parse_out = NotParsed
ResIdle == res_tags = <<>> /\ res_path = <<>> /\ res_impl = "none" /\ res_out = NotResolved

Init ==
    /\ variant \in Variants
    /\ DiscInit
    /\ DbInit
    /\ ParseIdle
    /\ ResIdle
    /\ OpsIdle

Next ==
    \/ \E ok \in BOOLEAN : Connect(ok)
    \/ \E threw \in BOOLEAN, answer \in SeqsUpTo(ControllerSummaries, MaxListLen) :
          (threw => answer = <<>>) /\ ListControllerTags(threw, answer)
    \/ \E how \in {"threw", "novalue", "value"}, value \in ProgramValues :
          (how # "value" => value = <<ProgramNames[1]>>) /\ ReadProgram(how, value)
    \/ \E threw \in BOOLEAN, answer \in SeqsUpTo(ProgramSummaries, MaxListLen) :
          (threw => answer = <<>>) /\ ListProgramTags(threw, answer)
    \/ SkipTag
    \/ \E threw \in BOOLEAN, full_def \in DiscoveryDefs :
          (threw => full_def = DefInt) /\ ProcessTag(threw, full_def)
    \/ \E info_ok \in BOOLEAN : DiscoverReturn(info_ok)
    \/ \E fault \in Faults : StoreTags(fault)

Spec == Init /\ [][Next]_vars

----------------------------------------------------------------------------
(* Vocabulary of the discovery claims *)

\* the discovery call has returned or raised, after listing began
Returned == outcome # "none" /\ g_scopes # <<>>

\* a reserved name: leading '__' or leading 'System:'
Reserved(n) == StartsWith(n, Dunder) \/ StartsWith(n, SystemPrefix)

\* the TagSet key a listed name is expected under
ExpectedKey(scope, tag_name) ==
    IF scope = <<>> THEN tag_name
    ELSE ProgramPrefix \o scope \o <<".">> \o tag_name

\* the keys the scopes that answered are expected to contribute
ListedKeysOf(j) ==
    {ExpectedKey(g_scopes[j].scope, g_scopes[j].answer[i].tag_name) :
        i \in 1..Len(g_scopes[j].answer)}
ListedKeys == UNION {ListedKeysOf(j) : j \in 1..Len(g_scopes)}
ExpectedKeys == {k \in ListedKeys : ~Reserved(k) /\ k # <<>>}

SomeScopeThrew == \E j \in 1..Len(g_scopes) : g_scopes[j].threw
NothingRetrieved == \A j \in 1..Len(g_scopes) : g_scopes[j].answer = <<>>

\* a node that is not Structured and carries the summary's shallow type
CarriesShallow(node, summary) ==
    IF ~summary.has_dt THEN node = Leaf(Name("UNKNOWN"))
    ELSE IF summary.data_type.py = "str" THEN node = Leaf(Name(summary.data_type.name))
    ELSE node.kind \in {"leaf", "raw"} /\ node.ty.of = summary.data_type.name

RECURSIVE MemberKeys(_)
\* every member name below a node, at any depth
MemberKeys(node) ==
    KeySet(node.members) \cup
    UNION {MemberKeys(node.members[i].v) : i \in 1..Len(node.members)}
AllMemberKeys(d) == UNION {MemberKeys(d[i].v) : i \in 1..Len(d)}

RECURSIVE NodeTypes(_)
\* every type value of a node, at any depth, with the node's kind
NodeTypes(node) ==
    {[kind |-> node.kind, ty |-> node.ty]} \cup
    UNION {NodeTypes(node.members[i].v) : i \in 1..Len(node.members)}
AllTypes(d) == UNION {NodeTypes(d[i].v) : i \in 1..Len(d)}

\* C1: when the listing of a scope throws, the run goes on to the other
\* scopes (it is not ended by that exception), every non-reserved tag of a
\* scope that answered is in the TagSet, and the run fails only when nothing
\* at all was retrieved.
C1_ScopeFailureDoesNotAbort ==
    (Returned /\ SomeScopeThrew /\ g_cause # "plc_info") =>
        /\ g_cause # "list"
        /\ g_progread # "none"
        /\ ~NothingRetrieved => outcome = "success"
        /\ outcome = "success" => ExpectedKeys \subseteq KeySet(tags)

C3_FailsIffNothingRetrieved ==
    (Returned /\ g_cause \notin {"list", "plc_info"}) =>
        /\ outcome = "failure" <=> NothingRetrieved
        /\ NothingRetrieved => stored # "ok"

\* C4: when reading PROGRAM throws or yields no value, no program scope is
\* listed, the run does not fail because of it, and every non-reserved
\* controller-scope tag that was listed is in the TagSet.
C4_ProgramReadFailureNonFatal ==
    (Returned /\ g_progread \in {"threw", "novalue"}) =>
        /\ Len(g_scopes) = 1
        /\ outcome = "failure" => g_cause \in {"empty", "plc_info"}
        /\ g_cause = "empty" => NothingRetrieved
        /\ outcome = "success" =>
              /\ ExpectedKeys \subseteq KeySet(tags)
              /\ KeySet(tags) \subseteq ListedKeysOf(1)

C4_Witness ==
    /\ Returned
    /\ g_progread = "threw"
    /\ outcome = "success"
    /\ tags # <<>>

C7_OnlyDisplayNamesStored ==
    (pc = "store" \/ stored # "none") =>
        \A t \in AllTypes(tags) : t.kind # "raw" /\ t.ty.form = "name"

----------------------------------------------------------------------------
(* _parse_structure_def on its own, over raw definitions to depth MaxDepth *)

MaxDepth == 2       \* nesting depth of the raw definitions

LeafDefs ==
    {TagDefNoType, TagDef(PyStr("INT")), TagDef(PyObj("TIMER")),
     TagDef(PyDict(TRUE, "UDT", FALSE, <<>>)), TagDef(PyDict(FALSE, "", TRUE, <<>>))}

RECURSIVE DefsAt(_)
\* a structure holds one member of the depth below, named visibly or
\* reserved, with an optional reserved member before and a visible one after
DefsAt(d) ==
    IF d = 0 THEN LeafDefs
    ELSE LET sub == DefsAt(d - 1)
         IN sub \cup
            {TagDef(PyDict(hn, "UDT", TRUE, before \o <<Item(k, c)>> \o after)) :
                hn \in BOOLEAN, k \in {nSp, nPad, nSysMember}, c \in sub,
                before \in {<<>>, <<Item(Dunder \o <<"q">>, DefInt)>>},
                after \in {<<>>, <<Item(nIn, DefInt)>>}}

DiscOff ==
    /\ pc = "off"
    /\ connected = FALSE
    /\ initial_tag_list = <<>>
    /\ failed_scopes = <<>>
    /\ programs = <<>>
    /\ idx = 1
    /\ parsed_tags = <<>>
    /\ tags = <<>>
    /\ outcome = "none"
    /\ stored = "none"
    /\ g_scopes = <<>>
    /\ g_progread = "none"
    /\ g_info = <<>>
    /\ g_cause = "none"

ParseInit ==
    /\ variant \in Variants
    /\ DiscOff
    /\ DbInit
    /\ ResIdle
    /\ OpsIdle
    /\ raw_def \in DefsAt(MaxDepth)
    /\ parse_out = NotParsed

\* the call _parse_structure_def(raw_def)
Parse ==
    /\ ~parse_out.done
    /\ parse_out' = [done |-> TRUE, node |-> parse_structure_def(variant, raw_def)]
    /\ UNCHANGED <<variant, discVars, dbVars, raw_def, resVars, opVars>>

ParseNext == Parse

SpecParse == ParseInit /\ [][ParseNext]_vars

\* the member collection of a raw definition, read off the definition
RawMembers(tag_def) ==
    IF tag_def.has_dt /\ tag_def.data_type.py = "dict" /\ tag_def.data_type.hasIt
    THEN tag_def.data_type.it ELSE <<>>

NotDunder(item) == ~StartsWith(item.k, Dunder)

RECURSIVE AllNodes(_)
AllNodes(node) ==
    {node} \cup UNION {AllNodes(node.members[i].v) : i \in 1..Len(node.members)}

RECURSIVE ShapeOk(_, _)
\* a Leaf exactly for an absent or empty member collection; otherwise a
\* Structured node whose members are the non-'__' raw members, in order
ShapeOk(tag_def, node) ==
    LET raw == RawMembers(tag_def)
        kept == SelectSeq(raw, NotDunder)
    IN IF raw = <<>>
       THEN /\ node.kind = "leaf"
            /\ node.members = <<>>
            /\ (tag_def.has_dt /\ tag_def.data_type.py = "dict") =>
                  node.ty = Name(IF tag_def.data_type.hasName
                                 THEN tag_def.data_type.name ELSE "STRUCT")
       ELSE /\ node.kind = "struct"
            /\ Keys(node.members) = Keys(kept)
            /\ \A i \in 1..Len(kept) : ShapeOk(kept[i].v, node.members[i].v)

----------------------------------------------------------------------------
(* The repository on its own: any sequence of update_plc_data calls *)

MaxCalls == 3       \* update_plc_data calls in one behaviour

Endpoints == {Endpoint("10.0.0.5", 0), Endpoint("10.0.0.5", 1)}
Infos == {[plc_name |-> "L71", revision |-> "32.11"],
          [plc_name |-> "L71", revision |-> "33.1"]}
TagSetCounter == <<Item(nCt, Leaf(Name("INT")))>>
TagSetMotor ==
    <<Item(nCt, Leaf(Name("DINT"))),
      Item(nMt, Struct(Name("MOTOR_UDT"),
                       <<Item(nSp, Leaf(Name("REAL"))), Item(nIn, Leaf(Name("BOOL")))>>))>>
DbTagSets == {TagSetCounter, TagSetMotor}

DbSpecInit ==
    /\ variant = "consolidated"
    /\ DiscOff
    /\ DbInit
    /\ ParseIdle
    /\ ResIdle
    /\ OpsIdle

\* one call db.update_plc_data(ip, slot, info, tags)
Upsert(ep, info, tagset, fault) ==
    /\ g_calls < MaxCalls
    /\ CallUpdate(ep, info, tagset, fault)
    /\ UNCHANGED <<variant, discVars, parseVars, resVars, opVars>>

\* db.close() and a new DatabaseManager on the same file
Reopen ==
    /\ db_intxn
    /\ DbReopen
    /\ UNCHANGED <<variant, discVars, parseVars, resVars, opVars>>

DbNext ==
    \/ \E ep \in Endpoints, info \in Infos, tagset \in DbTagSets, fault \in Faults :
          Upsert(ep, info, tagset, fault)
    \/ Reopen

SpecDb == DbSpecInit /\ [][DbNext]_vars

RowsOf(db, ep) == {r \in db.plcs : r.ep = ep}
TagRowsOf(db, plc_id) == {r \in db.tag_data : r.plc_id = plc_id}

\* C8: the committed database never holds a controller row written by a
\* call that failed before its TagSet row was written.
C8_UpsertAtomic ==
    \A r \in db_disk.plcs : r.last_scan \notin g_partial

\* C9: every endpoint that was upserted successfully has exactly one
\* controller row and exactly one TagSet row, and the TagSet read back is
\* the one passed to its most recent successful upsert.
C9_OneRowLatestTagSet ==
    \A i \in 1..Len(g_upserts) :
        LET ep == g_upserts[i].k
        IN /\ Cardinality(RowsOf(db_disk, ep)) = 1
           /\ \A r \in RowsOf(db_disk, ep) :
                 /\ Cardinality(TagRowsOf(db_disk, r.id)) = 1
                 /\ get_tag_data(db_disk, r.id) = g_upserts[i].v.tags
                 /\ get_tag_data(db_conn, r.id) = g_upserts[i].v.tags

C9_Witness ==
    /\ Len(g_upserts) = 2
    /\ \E i \in 1..2 :
          /\ g_upserts[i].v.n >= 2
          /\ g_upserts[i].v.tags = TagSetCounter

----------------------------------------------------------------------------
(* Case-insensitive path resolution: PLCToolkit._find_case_insensitive_tag
   and the inline resolver of run_checker *)

MaxSegs == 3        \* segments in a user path

\* '.' in s
Contains(s, c) == \E i \in 1..Len(s) : s[i] = c
IndexOf(s, c) == CHOOSE i \in 1..Len(s) : s[i] = c /\ \A j \in 1..(i - 1) : s[j] # c

\* s.split('.', 1) of a string holding a '.'
Split1(s) == <<SubSeq(s, 1, IndexOf(s, Dot) - 1), SubSeq(s, IndexOf(s, Dot) + 1, Len(s))>>

RECURSIVE Split(_)
\* s.split('.')
Split(s) == IF Contains(s, Dot) THEN <<Split1(s)[1]>> \o Split(Split1(s)[2]) ELSE <<s>>

RECURSIVE Join(_)
\* '.'.join(parts)
Join(parts) ==
    IF parts = <<>> THEN <<>>
    ELSE IF Len(parts) = 1 THEN parts[1]
    ELSE parts[1] \o <<Dot>> \o Join(Tail(parts))

NotFound == [done |-> TRUE, found |-> FALSE, path |-> <<>>]
Found(p) == [done |-> TRUE, found |-> TRUE, path |-> p]

Matches(keys, name) == {i \in 1..Len(keys) : Lower(keys[i]) = Lower(name)}

\* next((k for k in keys if k.lower() == name.lower()), None), when a match exists
FirstMatch(keys, name) == keys[CHOOSE i \in Matches(keys, name) : \A j \in Matches(keys, name) : i <= j]

RECURSIVE NavigateMembers(_, _)
\* the loop over member_path_in.split('.'): the stored names, or failure
NavigateMembers(current_level, parts) ==
    IF parts = <<>> THEN [ok |-> TRUE, path |-> <<>>]
    ELSE IF current_level.kind # "struct" THEN [ok |-> FALSE, path |-> <<>>]
    ELSE IF Matches(Keys(current_level.members), parts[1]) = {} THEN [ok |-> FALSE, path |-> <<>>]
    ELSE LET member_match == FirstMatch(Keys(current_level.members), parts[1])
             rest == NavigateMembers(DictGet(current_level.members, member_match), Tail(parts))
         IN [ok |-> rest.ok, path |-> IF rest.ok THEN <<member_match>> \o rest.path ELSE <<>>]

find_case_insensitive_tag(self_tags, tag_name_in) ==
    IF Contains(tag_name_in, Dot)
    THEN LET base_tag_in == Split1(tag_name_in)[1]
             member_path_in == Split1(tag_name_in)[2]
         IN IF Matches(Keys(self_tags), base_tag_in) = {} THEN NotFound
            ELSE LET base_match == FirstMatch(Keys(self_tags), base_tag_in)
                     nav == NavigateMembers(DictGet(self_tags, base_match), Split(member_path_in))
                 IN IF nav.ok THEN Found(Join(<<base_match>> \o nav.path)) ELSE NotFound
    ELSE IF Matches(Keys(self_tags), tag_name_in) = {} THEN NotFound
         ELSE Found(FirstMatch(Keys(self_tags), tag_name_in))

RECURSIVE TagMap(_)
\* {name.lower(): definition for name, definition in parsed_tags_dict.items()}
TagMap(parsed_tags_dict) ==
    IF parsed_tags_dict = <<>> THEN <<>>
    ELSE LET n == Len(parsed_tags_dict)
         IN DictSet(TagMap(SubSeq(parsed_tags_dict, 1, n - 1)),
                    Lower(parsed_tags_dict[n].k), parsed_tags_dict[n].v)

\* the resolution block of run_checker: what final_tag_to_read becomes
checker_resolve(parsed_tags_dict, tag_name_in) ==
    LET tag_map == TagMap(parsed_tags_dict)
    IN IF tag_map = <<>> THEN Found(tag_name_in)
       ELSE IF Contains(tag_name_in, Dot)
       THEN LET base_tag_in == Split1(tag_name_in)[1]
                member_path_in == Split1(tag_name_in)[2]
            IN IF ~HasKey(tag_map, Lower(base_tag_in)) THEN NotFound
               ELSE LET parsed_def == DictGet(tag_map, Lower(base_tag_in))
                        correct_base_tag == FirstMatch(Keys(parsed_tags_dict), base_tag_in)
                        nav == NavigateMembers(parsed_def, Split(member_path_in))
                    IN IF nav.ok THEN Found(correct_base_tag \o <<Dot>> \o Join(nav.path))
                       ELSE NotFound
       ELSE IF HasKey(tag_map, Lower(tag_name_in))
            THEN Found(FirstMatch(Keys(parsed_tags_dict), tag_name_in))
            ELSE NotFound

ResMotor == Struct(Name("MOTOR_UDT"),
                   <<Item(nSp, Leaf(Name("REAL"))),
                     Item(nIn, Struct(Name("IN_UDT"), <<Item(nX, Leaf(Name("BOOL")))>>))>>)
ResTagSets ==
    {<<>>,
     <<Item(nMt, ResMotor), Item(nCt, Leaf(Name("INT")))>>,
     <<Item(nCt, Leaf(Name("INT"))), Item(ProgramScoped(<<"M">>, nX), Leaf(Name("DINT")))>>,
     <<Item(nMt, Leaf(Name("INT"))), Item(<<"m", "T">>, ResMotor)>>}

Segments == {nMt, <<"m", "t">>, <<"s", "P">>, <<"i", "n">>, nX, nCt, <<"z">>,
             ProgramPrefix \o <<"M">>}
UserPaths == {Join(segs) : segs \in SeqsUpTo(Segments, MaxSegs) \ {<<>>}}

ResInit ==
    /\ variant = "consolidated"
    /\ DiscOff
    /\ DbInit
    /\ ParseIdle
    /\ res_tags \in ResTagSets
    /\ res_path \in UserPaths
    /\ res_impl = "none"
    /\ res_out = NotResolved
    /\ OpsIdle

\* PLCToolkit._find_case_insensitive_tag(tag_name_in) over self.tags
ResolveToolkit ==
    /\ ~res_out.done
    /\ res_impl' = "consolidated"
    /\ res_out' = find_case_insensitive_tag(res_tags, res_path)
    /\ UNCHANGED <<variant, discVars, dbVars, parseVars, res_tags, res_path, opVars>>

\* one pass of run_checker's prompt loop up to plc.read
ResolveChecker ==
    /\ ~res_out.done
    /\ res_impl' = "checker"
    /\ res_out' = checker_resolve(res_tags, res_path)
    /\ UNCHANGED <<variant, discVars, dbVars, parseVars, res_tags, res_path, opVars>>

ResNext == ResolveToolkit \/ ResolveChecker

SpecResolve == ResInit /\ [][ResNext]_vars

RECURSIVE Canonical(_, _, _)
\* chain is a sequence of as-stored names through members, matching the user's
\* segments ignoring case
Canonical(items, segs, chain) ==
    /\ Len(chain) = Len(segs)
    /\ segs # <<>>
    /\ HasKey(items, chain[1])
    /\ Lower(chain[1]) = Lower(segs[1])
    /\ Len(segs) > 1 =>
          /\ DictGet(items, chain[1]).kind = "struct"
          /\ Canonical(DictGet(items, chain[1]).members, Tail(segs), Tail(chain))

RECURSIVE NameChains(_, _)
\* every chain of chain names of length n starting in items
NameChains(items, n) ==
    IF n = 0 THEN {<<>>}
    ELSE UNION {{<<items[i].k>> \o rest : rest \in NameChains(items[i].v.members, n - 1)} :
                   i \in 1..Len(items)}

Resolvable(tagset, segs) ==
    \E chain \in NameChains(tagset, Len(segs)) : Canonical(tagset, segs, chain)

RECURSIVE NoCaseTies(_)
NoCaseTies(items) ==
    /\ \A i, j \in 1..Len(items) : Lower(items[i].k) = Lower(items[j].k) => i = j
    /\ \A i \in 1..Len(items) : NoCaseTies(items[i].v.members)

\* C10: a returned path is the dotted chain of as-stored names matching the
\* user's segments ignoring case; a path some segment of which matches
\* nothing gives not-found; a matching path gives a result (where names are
\* unique ignoring case, which the spec requires).
C10_CanonicalCasing ==
    res_out.done =>
        LET segs == Split(res_path)
        IN /\ res_out.found =>
                \E chain \in NameChains(res_tags, Len(segs)) :
                    Canonical(res_tags, segs, chain) /\ res_out.path = Join(chain)
           /\ ~Resolvable(res_tags, segs) => ~res_out.found
           /\ (Resolvable(res_tags, segs) /\ NoCaseTies(res_tags)) => res_out.found

RECURSIVE NodeAt(_, _)
\* the node a chain of as-stored names leads to, if there is one
NodeAt(items, names) ==
    IF names = <<>> \/ ~HasKey(items, names[1]) THEN [ok |-> FALSE, node |-> Leaf(Name(""))]
    ELSE IF Len(names) = 1 THEN [ok |-> TRUE, node |-> DictGet(items, names[1])]
    ELSE NodeAt(DictGet(items, names[1]).members, Tail(names))

RECURSIVE WalkHitsLeaf(_, _)
\* following the first entry that matches each segment ignoring case, a
\* Leaf is reached while segments remain
WalkHitsLeaf(items, segs) ==
    /\ Len(segs) > 1
    /\ Matches(Keys(items), segs[1]) # {}
    /\ LET node == DictGet(items, FirstMatch(Keys(items), segs[1]))
       IN IF node.kind = "struct" THEN WalkHitsLeaf(node.members, Tail(segs)) ELSE TRUE

\* C11: resolution that reaches a Leaf while segments remain gives
\* not-found, and no returned path continues below a stored Leaf.
C11_NoPathBelowLeaf ==
    res_out.done =>
        /\ WalkHitsLeaf(res_tags, Split(res_path)) => ~res_out.found
        /\ res_out.found =>
              LET out == Split(res_out.path)
              IN \A k \in 1..(Len(out) - 1) :
                    NodeAt(res_tags, SubSeq(out, 1, k)).ok =>
                        NodeAt(res_tags, SubSeq(out, 1, k)).node.kind = "struct"

----------------------------------------------------------------------------
(* One read request: PLCToolkit.read_tag and one pass of run_checker's loop *)

ReadOutcomes == {"value", "inband", "threw"}

\* what the caller shows after plc.read returned or raised
Reported(read_outcome) ==
    CASE read_outcome = "value" -> "result"
      [] read_outcome = "inband" -> "result_error"
      [] read_outcome = "threw" -> "exception"

ReadInit ==
    /\ variant = "consolidated"
    /\ DiscOff
    /\ DbInit
    /\ ParseIdle
    /\ res_tags \in ResTagSets
    /\ res_path \in UserPaths
    /\ res_impl = "none"
    /\ res_out = NotResolved
    /\ OpsIdle

\* PLCToolkit.read_tag(tag_name, case_sensitive=False) on a connected session
ReadTag(read_outcome) ==
    /\ rd_report = "none"
    /\ res_impl' = "consolidated"
    /\ LET matched_tag == IF res_tags # <<>>
                          THEN find_case_insensitive_tag(res_tags, res_path)
                          ELSE NotResolved
           tag_name == IF matched_tag.found THEN matched_tag.path ELSE res_path
       IN /\ res_out' = matched_tag
          /\ rd_issued' = Append(rd_issued, tag_name)
          /\ rd_report' = Reported(read_outcome)
    /\ UNCHANGED <<variant, discVars, dbVars, parseVars, res_tags, res_path, pollVars, sessVars, logVars, thrVars, moreVars>>

\* one pass of run_checker's loop for a non-empty input that is not 'c'
CheckerRead(read_outcome) ==
    /\ rd_report = "none"
    /\ res_impl' = "checker"
    /\ LET resolved == IF TagMap(res_tags) # <<>>
                       THEN checker_resolve(res_tags, res_path)
                       ELSE NotResolved
           final_tag_to_read == IF resolved.done THEN resolved.path ELSE res_path
       IN /\ res_out' = resolved
          /\ IF resolved.done /\ ~resolved.found
             THEN rd_issued' = rd_issued /\ rd_report' = "not_found"
             ELSE /\ rd_issued' = Append(rd_issued, final_tag_to_read)
                  /\ rd_report' = Reported(read_outcome)
    /\ UNCHANGED <<variant, discVars, dbVars, parseVars, res_tags, res_path, pollVars, sessVars, logVars, thrVars, moreVars>>

ReadNext ==
    \/ \E read_outcome \in ReadOutcomes : ReadTag(read_outcome)
    \/ \E read_outcome \in ReadOutcomes : CheckerRead(read_outcome)

SpecRead == ReadInit /\ [][ReadNext]_vars

\* C12: with a TagSet available, a request whose path does not resolve is
\* reported as not-found with no protocol read, and any protocol read
\* carries the path resolution returned.
C12_NotFoundBeforeRead ==
    (rd_report # "none" /\ res_tags # <<>>) =>
        /\ res_out.done
        /\ ~res_out.found => (rd_issued = <<>> /\ rd_report = "not_found")
        /\ res_out.found => rd_issued = <<res_out.path>>

----------------------------------------------------------------------------
(* The live poller: run_continuous_scan and PLCToolkit.monitor_tag *)

MONITOR_REFRESH_SECONDS == 5
MONITOR_HISTORY_SIZE == 10

MaxTicks == 12      \* ticks of one poll
MaxPolls == 2       \* polls started in one behaviour
MaxFaults == 1      \* reads in one behaviour that give no value

PollImpls == {"checker", "consolidated"}

\* a full buffer that turns the new record away
DequeAppendKeepOldest(dq, x) ==
    IF Len(dq) >= MONITOR_HISTORY_SIZE THEN dq ELSE Append(dq, x)

\* deque(maxlen=MONITOR_HISTORY_SIZE).append
DequeAppend(dq, x) ==
    IF Len(dq) >= MONITOR_HISTORY_SIZE THEN Append(Tail(dq), x) ELSE Append(dq, x)

\* the line appended for one tick
Reading(poll, tick, read_outcome) ==
    [poll |-> poll, tick |-> tick,
     kind |-> CASE read_outcome = "value" -> "value"
                [] read_outcome = "inband" -> "inband"
                [] read_outcome = "threw" -> "error"]

PollInit ==
    /\ variant = "consolidated"
    /\ DiscOff
    /\ DbInit
    /\ ParseIdle
    /\ ResIdle
    /\ OpsIdle

\* an entry that leaves the event as the last poll set it
StartPollNoClear(impl) ==
    /\ p_pc \in {"idle", "stopped"}
    /\ p_polls < MaxPolls
    /\ poll_impl' = impl
    /\ readings' = <<>>
    /\ listener' = "waiting"
    /\ p_pc' = "check"
    /\ p_tick' = 0
    /\ p_polls' = p_polls + 1
    /\ g_log' = <<>>
    /\ g_after_stop' = 0
    /\ g_prev' = (readings # <<>>)
    /\ g_cut' = FALSE
    /\ UNCHANGED <<stop_event, remaining, g_faults>>
    /\ UNCHANGED <<variant, discVars, dbVars, parseVars, resVars, readVars, sessVars, logVars, thrVars, moreVars>>

\* entry of run_continuous_scan / monitor_tag up to the while loop
StartPoll(impl) ==
    /\ p_pc \in {"idle", "stopped"}
    /\ p_polls < MaxPolls
    /\ poll_impl' = impl
    /\ readings' = <<>>
    /\ stop_event' = FALSE
    /\ listener' = "waiting"
    /\ p_pc' = "check"
    /\ p_tick' = 0
    /\ p_polls' = p_polls + 1
    /\ g_log' = <<>>
    /\ g_after_stop' = 0
    /\ g_prev' = (readings # <<>>)
    /\ g_cut' = FALSE
    /\ UNCHANGED <<remaining, g_faults>>
    /\ UNCHANGED <<variant, discVars, dbVars, parseVars, resVars, readVars, sessVars, logVars, thrVars, moreVars>>

\* listen_for_stop: input() returns and the event is set
PressEnter ==
    /\ listener = "waiting"
    /\ stop_event' = TRUE
    /\ listener' = "done"
    /\ UNCHANGED <<poll_impl, p_pc, readings, p_tick, remaining, p_polls, g_log,
                   g_faults, g_after_stop, g_prev, g_cut>>
    /\ UNCHANGED <<variant, discVars, dbVars, parseVars, resVars, readVars, sessVars, logVars, thrVars, moreVars>>

\* while not stop_event.is_set()
LoopCheck ==
    /\ p_pc = "check"
    /\ IF stop_event
       THEN p_pc' = "stopped" /\ UNCHANGED p_tick
       ELSE p_tick < MaxTicks /\ p_pc' = "read" /\ p_tick' = p_tick + 1
    /\ UNCHANGED <<poll_impl, readings, remaining, stop_event, listener, p_polls,
                   g_log, g_faults, g_after_stop, g_prev, g_cut>>
    /\ UNCHANGED <<variant, discVars, dbVars, parseVars, resVars, readVars, sessVars, logVars, thrVars, moreVars>>

\* a loop body without the except branch
DoReadUncaught(read_outcome) ==
    /\ p_pc = "read"
    /\ read_outcome # "value" => g_faults < MaxFaults
    /\ g_faults' = IF read_outcome = "value" THEN g_faults ELSE g_faults + 1
    /\ IF read_outcome = "threw"
       THEN p_pc' = "stopped" /\ UNCHANGED <<readings, g_log, remaining>>
       ELSE /\ readings' = DequeAppend(readings, Reading(p_polls, p_tick, read_outcome))
            /\ g_log' = Append(g_log, Reading(p_polls, p_tick, read_outcome))
            /\ p_pc' = "wait"
            /\ remaining' = MONITOR_REFRESH_SECONDS
    /\ g_after_stop' = IF stop_event THEN g_after_stop + 1 ELSE g_after_stop
    /\ UNCHANGED <<poll_impl, p_tick, stop_event, listener, p_polls, g_prev, g_cut>>
    /\ UNCHANGED <<variant, discVars, dbVars, parseVars, resVars, readVars, sessVars, logVars, thrVars, moreVars>>

\* the try/except of the loop body: plc.read, then one append either way
DoRead(read_outcome) ==
    /\ p_pc = "read"
    /\ read_outcome # "value" => g_faults < MaxFaults
    /\ g_faults' = IF read_outcome = "value" THEN g_faults ELSE g_faults + 1
    /\ readings' = DequeAppend(readings, Reading(p_polls, p_tick, read_outcome))
    /\ g_log' = Append(g_log, Reading(p_polls, p_tick, read_outcome))
    /\ g_after_stop' = IF stop_event THEN g_after_stop + 1 ELSE g_after_stop
    /\ p_pc' = "wait"
    /\ remaining' = MONITOR_REFRESH_SECONDS
    /\ UNCHANGED <<poll_impl, p_tick, stop_event, listener, p_polls, g_prev, g_cut>>
    /\ UNCHANGED <<variant, discVars, dbVars, parseVars, resVars, readVars, sessVars, logVars, thrVars, moreVars>>

\* one time unit goes by inside stop_event.wait(MONITOR_REFRESH_SECONDS)
TimePasses ==
    /\ p_pc = "wait"
    /\ remaining > 0
    /\ ~stop_event
    /\ remaining' = remaining - 1
    /\ UNCHANGED <<poll_impl, p_pc, readings, p_tick, stop_event, listener, p_polls,
                   g_log, g_faults, g_after_stop, g_prev, g_cut>>
    /\ UNCHANGED <<variant, discVars, dbVars, parseVars, resVars, readVars, sessVars, logVars, thrVars, moreVars>>

\* time.sleep in place of Event.wait: only the timeout ends it
WaitReturnSleep ==
    /\ p_pc = "wait"
    /\ remaining = 0
    /\ p_pc' = "check"
    /\ UNCHANGED <<poll_impl, readings, p_tick, remaining, stop_event, listener,
                   p_polls, g_log, g_faults, g_after_stop, g_prev, g_cut>>
    /\ UNCHANGED <<variant, discVars, dbVars, parseVars, resVars, readVars, sessVars, logVars, thrVars, moreVars>>

\* stop_event.wait(..) returns: the event is set or the interval is over
WaitReturn ==
    /\ p_pc = "wait"
    /\ stop_event \/ remaining = 0
    /\ p_pc' = "check"
    /\ g_cut' = (g_cut \/ remaining > 0)
    /\ UNCHANGED <<poll_impl, readings, p_tick, remaining, stop_event, listener,
                   p_polls, g_log, g_faults, g_after_stop, g_prev>>
    /\ UNCHANGED <<variant, discVars, dbVars, parseVars, resVars, readVars, sessVars, logVars, thrVars, moreVars>>

PollerStep ==
    \/ LoopCheck
    \/ \E read_outcome \in ReadOutcomes : DoRead(read_outcome)
    \/ TimePasses
    \/ WaitReturn

PollNext ==
    \/ \E impl \in PollImpls : StartPoll(impl)
    \/ PressEnter
    \/ PollerStep

\* the polling thread keeps running: a read returns or raises, a wait ends
SpecPoll == PollInit /\ [][PollNext]_vars /\ WF_vars(PollerStep)

Completed == Len(g_log)

\* the k most recent records of a log, oldest first
MostRecent(log, k) == SubSeq(log, Len(log) - k + 1, Len(log))

Min(a, b) == IF a <= b THEN a ELSE b

\* C13: after n completed ticks the history holds exactly the
\* min(n, capacity) most recent tick records in chronological order, one
\* record per tick.
C13_FifoHistory ==
    p_polls > 0 =>
        /\ \A i \in 1..Completed : g_log[i].tick = i
        /\ Completed = (IF p_pc = "read" THEN p_tick - 1 ELSE p_tick)
        /\ readings = MostRecent(g_log, Min(Completed, MONITOR_HISTORY_SIZE))

C13_Witness ==
    /\ Completed = 12
    /\ Len(readings) = 10
    /\ readings[1].tick = 3
    /\ readings[10].tick = 12

\* C14: a read that throws leaves one error record for its tick and the
\* poll goes on: it stops only on the stop event, and after the error the
\* next tick's read is reached unless the event is set.
C14_ThrownReadKeepsPolling ==
    /\ [](p_polls > 0 =>
            /\ Completed = (IF p_pc = "read" THEN p_tick - 1 ELSE p_tick)
            /\ \A i \in 1..Completed : g_log[i].tick = i
            /\ p_pc = "stopped" => stop_event)
    /\ ((p_pc = "wait" /\ g_log[Completed].kind = "error" /\ p_tick < MaxTicks)
            ~> (stop_event \/ p_pc = "read"))

C14_Witness ==
    /\ ~stop_event
    /\ p_pc = "wait"
    /\ \E i \in 1..(Completed - 1) : g_log[i].kind = "error" /\ g_log[i + 1].kind = "value"

\* C15: once the stop event is set the poll reaches Stopped; no time of a
\* wait goes by while the event is set, and at most one read is made after
\* the event was set.
C15_CancelStopsPromptly ==
    /\ [](g_after_stop <= 1)
    /\ [][(stop_event /\ p_pc = "wait") => remaining' = remaining]_vars
    /\ (stop_event ~> (p_pc = "stopped"))

C15_Witness ==
    /\ p_pc = "stopped"
    /\ g_cut
    /\ g_after_stop = 1

\* C16: every poll starts in Polling with an empty history and a cleared
\* stop event; the history holds records of the running poll only, and a
\* stopped poll is left only by the start of a new one.
C16_FreshPoll ==
    /\ [](/\ \A i \in 1..Len(readings) : readings[i].poll = p_polls
          /\ (p_pc = "check" /\ p_tick = 0) => readings = <<>>
          /\ stop_event => listener = "done")
    /\ [][p_pc = "stopped" =>
             \/ p_pc' = "stopped"
             \/ /\ p_pc' = "check"
                /\ p_polls' = p_polls + 1
                /\ readings' = <<>>
                /\ ~stop_event']_vars

C16_Witness ==
    /\ p_polls = 2
    /\ g_prev
    /\ ~stop_event
    /\ readings # <<>>

----------------------------------------------------------------------------
(* The controller session: connect and disconnect of PLCToolkit and ABTagDiscovery *)

MaxOps == 4         \* connect / disconnect calls in one behaviour

SessImpls == {"consolidated", "discovery_tool"}
ConnectResults == {"ok", "open_fails", "info_fails"}

IsOpen == s_plc = "driver" /\ s_connected

SessInit ==
    /\ variant = "consolidated"
    /\ DiscOff
    /\ DbInit
    /\ ParseIdle
    /\ ResIdle
    /\ ReadIdle
    /\ PollIdle
    /\ LogIdle
    /\ ThrIdle
    /\ MoreIdle
    /\ s_impl \in SessImpls
    /\ s_plc = "none"
    /\ s_connected = FALSE
    /\ g_ops = <<>>

Op(name, was_open, raised, close_called) ==
    [op |-> name, was_open |-> was_open, raised |-> raised, close_called |-> close_called]

\* connect(): LogixDriver(..), open(), get_plc_info(); the except branch
\* closes an open driver in PLCToolkit and leaves it in ABTagDiscovery
SessConnect(result) ==
    /\ Len(g_ops) < MaxOps
    /\ ~IsOpen
    /\ IF result = "info_fails" /\ s_impl = "consolidated"
       THEN s_plc' = "none" /\ s_connected' = FALSE
       ELSE s_plc' = "driver" /\ s_connected' = (result # "open_fails")
    /\ g_ops' = Append(g_ops, Op("connect", FALSE, FALSE,
                                 result = "info_fails" /\ s_impl = "consolidated"))
    /\ UNCHANGED <<s_impl, variant, discVars, dbVars, parseVars, resVars, readVars, pollVars, logVars, thrVars, exVars, chkVars>>

\* a disconnect that closes whatever driver it holds
SessDisconnectUnguarded(close_raises) ==
    /\ Len(g_ops) < MaxOps
    /\ IF s_plc = "driver"
       THEN IF close_raises
            THEN /\ g_ops' = Append(g_ops, Op("disconnect", IsOpen, TRUE, TRUE))
                 /\ UNCHANGED s_plc
                 /\ s_connected' = FALSE
            ELSE /\ g_ops' = Append(g_ops, Op("disconnect", IsOpen, FALSE, TRUE))
                 /\ s_connected' = FALSE
                 /\ s_plc' = IF s_impl = "consolidated" THEN "none" ELSE s_plc
       ELSE /\ g_ops' = Append(g_ops, Op("disconnect", FALSE, FALSE, FALSE))
            /\ UNCHANGED <<s_plc, s_connected>>
    /\ UNCHANGED <<s_impl, variant, discVars, dbVars, parseVars, resVars, readVars, pollVars, logVars, thrVars, exVars, chkVars>>

\* disconnect(): close() only on a driver that reports connected; close()
\* may raise on a dead link, and then nothing after it runs
SessDisconnect(close_raises) ==
    /\ Len(g_ops) < MaxOps
    /\ IF IsOpen
       THEN IF close_raises
            THEN /\ g_ops' = Append(g_ops, Op("disconnect", TRUE, TRUE, TRUE))
                 /\ UNCHANGED s_plc
                 /\ s_connected' = FALSE
            ELSE /\ g_ops' = Append(g_ops, Op("disconnect", TRUE, FALSE, TRUE))
                 /\ s_connected' = FALSE
                 /\ s_plc' = IF s_impl = "consolidated" THEN "none" ELSE s_plc
       ELSE /\ g_ops' = Append(g_ops, Op("disconnect", FALSE, FALSE, FALSE))
            /\ s_connected' = s_connected
            /\ s_plc' = IF s_impl = "consolidated" THEN "none" ELSE s_plc
    /\ UNCHANGED <<s_impl, variant, discVars, dbVars, parseVars, resVars, readVars, pollVars, logVars, thrVars, exVars, chkVars>>

SessNext ==
    \/ \E result \in ConnectResults : SessConnect(result) /\ UNCHANGED runVars
    \/ \E close_raises \in BOOLEAN : SessDisconnect(close_raises) /\ UNCHANGED runVars

SpecSession == SessInit /\ [][SessNext]_vars

LastOp == g_ops[Len(g_ops)]

\* C18: disconnect on a session that is not open -- never opened, after a
\* failed open, or after a close -- raises nothing, issues no close call and
\* leaves the session closed.
C18_DisconnectIdempotent ==
    (g_ops # <<>> /\ LastOp.op = "disconnect" /\ ~LastOp.was_open) =>
        /\ ~LastOp.raised
        /\ ~LastOp.close_called
        /\ ~IsOpen

C18_Witness ==
    /\ Len(g_ops) = 3
    /\ g_ops[1].op = "connect"
    /\ g_ops[2].op = "disconnect" /\ g_ops[2].was_open /\ ~g_ops[2].raised
    /\ g_ops[3].op = "disconnect" /\ ~g_ops[3].was_open

----------------------------------------------------------------------------
(* Discovery runs: what a failure leaves to the caller *)

\* C19: a repository write that fails after a successful discovery ends
\* that store operation only: the run is over and the process is still in
\* its menu loop.
C19_StoreFailureKeepsProcess ==
    stored = "failed" => (pc = "done" /\ outcome = "success")

ScopesThatThrew == {j \in 1..Len(g_scopes) : g_scopes[j].threw}
TagsThatFellBack == {i \in 1..Len(g_info) : g_info[i].v.threw}

\* C20: after a run in which a scope's listing or a tag's definition
\* failed, what the run leaves names every failed scope and counts the tags
\* that fell back.
C20_FailuresRecorded ==
    (Returned /\ outcome = "success") =>
        /\ Len(failed_scopes) = Cardinality(ScopesThatThrew)
        /\ fallback_warnings = Cardinality(TagsThatFellBack)

----------------------------------------------------------------------------
(* Threads on the controller connection: the main thread, the worker that
   animated_task starts, and the poller's listen_for_stop thread *)

ThreadImpls == {"consolidated", "toolkit"}

\* the protocol calls of the function animated_task runs, in order:
\* PLCToolkit.discover_tags, or connect_and_discover
WorkerCalls(impl) ==
    IF impl = "consolidated"
    THEN <<"get_tag_list", "read", "get_tag_list", "get_tag_info">>
    ELSE <<"open", "get_tag_list", "read", "get_tag_list", "get_tag_info", "get_plc_info">>

Call(thread, name) == [thread |-> thread, call |-> name]

ThrInit ==
    /\ variant = "consolidated"
    /\ DiscOff
    /\ DbInit
    /\ ParseIdle
    /\ ResIdle
    /\ ReadIdle
    /\ PollIdle
    /\ SessIdle
    /\ LogIdle
    /\ MoreIdle
    /\ t_impl \in ThreadImpls
    /\ m_pc = "menu"
    /\ w_pc = "none"
    /\ w_idx = 1
    /\ done_event = FALSE
    /\ l_pc = "none"
    /\ t_stop = FALSE
    /\ inflight = {}
    /\ g_interrupted = FALSE

ThrOthers == <<variant, discVars, dbVars, parseVars, resVars, readVars, pollVars,
               sessVars, logVars, moreVars, t_impl>>

\* animated_task: done_event = Event(); thread.start()
StartWorker ==
    /\ m_pc = "menu"
    /\ m_pc' = "spin"
    /\ w_pc' = "ready"
    /\ w_idx' = 1
    /\ done_event' = FALSE
    /\ UNCHANGED <<l_pc, t_stop, inflight, g_interrupted, ThrOthers>>

\* the worker enters its next protocol call
WorkerCallBegin ==
    /\ w_pc = "ready"
    /\ w_idx <= Len(WorkerCalls(t_impl))
    /\ w_pc' = "in_call"
    /\ inflight' = inflight \cup {Call("worker", WorkerCalls(t_impl)[w_idx])}
    /\ UNCHANGED <<m_pc, w_idx, done_event, l_pc, t_stop, g_interrupted, ThrOthers>>

\* the calls made inside an inner try/except that swallows the exception:
\* plc.read('PROGRAM'), the program-scope listing, get_tag_info
SwallowedCalls(impl) == IF impl = "consolidated" THEN {2, 3, 4} ELSE {3, 4, 5}

\* the call returns or raises.  An exception of a guarded call is swallowed
\* and the target goes on; any other exception leaves discover_tags and is
\* kept by PLCToolkit's task_wrapper, or enters the except branch of
\* connect_and_discover.
WorkerCallEnd(raised) ==
    /\ w_pc = "in_call"
    /\ inflight' = inflight \ {Call("worker", WorkerCalls(t_impl)[w_idx])}
    /\ IF ~raised \/ w_idx \in SwallowedCalls(t_impl)
       THEN w_pc' = "ready" /\ w_idx' = w_idx + 1
       ELSE IF t_impl = "consolidated"
       THEN w_pc' = "ready" /\ w_idx' = Len(WorkerCalls(t_impl)) + 1
       ELSE w_pc' = "handler" /\ w_idx' = w_idx
    /\ UNCHANGED <<m_pc, done_event, l_pc, t_stop, g_interrupted, ThrOthers>>

\* connect_and_discover's except branch: results['error'] = str(e), then
\* plc.close() if the driver reports connected (it does unless open() failed)
WorkerHandler ==
    /\ w_pc = "handler"
    /\ IF w_idx = 1
       THEN /\ w_pc' = "ready"
            /\ w_idx' = Len(WorkerCalls(t_impl)) + 1
            /\ UNCHANGED inflight
       ELSE /\ w_pc' = "closing"
            /\ inflight' = inflight \cup {Call("worker", "close")}
            /\ UNCHANGED w_idx
    /\ UNCHANGED <<m_pc, done_event, l_pc, t_stop, g_interrupted, ThrOthers>>

\* plc.close() in the except branch returns, or raises: the exception then
\* leaves connect_and_discover and task_wrapper, which has no handler, and
\* the thread ends before done_event.set()
WorkerCloseEnd(raised) ==
    /\ w_pc = "closing"
    /\ inflight' = inflight \ {Call("worker", "close")}
    /\ IF raised
       THEN w_pc' = "dead" /\ UNCHANGED w_idx
       ELSE w_pc' = "ready" /\ w_idx' = Len(WorkerCalls(t_impl)) + 1
    /\ UNCHANGED <<m_pc, done_event, l_pc, t_stop, g_interrupted, ThrOthers>>

\* task_wrapper: the target is over, done_event.set()
WorkerDone ==
    /\ w_pc = "ready"
    /\ w_idx > Len(WorkerCalls(t_impl))
    /\ w_pc' = "finished"
    /\ done_event' = TRUE
    /\ UNCHANGED <<m_pc, w_idx, l_pc, t_stop, inflight, g_interrupted, ThrOthers>>

\* while not done_event.is_set(): ..sleep(0.5); then thread.join()
SpinEnds ==
    /\ m_pc = "spin"
    /\ done_event
    /\ w_pc = "finished"
    /\ m_pc' = "menu"
    /\ w_pc' = "none"
    /\ UNCHANGED <<w_idx, done_event, l_pc, t_stop, inflight, g_interrupted, ThrOthers>>

\* a single read from the tag checker: plc.read begins
MainReadBegin ==
    /\ m_pc = "menu"
    /\ m_pc' = "reading"
    /\ inflight' = inflight \cup {Call("main", "read")}
    /\ UNCHANGED <<w_pc, w_idx, done_event, l_pc, t_stop, g_interrupted, ThrOthers>>

MainReadEnd ==
    /\ m_pc = "reading"
    /\ m_pc' = "menu"
    /\ inflight' = inflight \ {Call("main", "read")}
    /\ UNCHANGED <<w_pc, w_idx, done_event, l_pc, t_stop, g_interrupted, ThrOthers>>

\* monitor_tag / run_continuous_scan: clear the event, start the listener
MonitorStart ==
    /\ m_pc = "menu"
    /\ m_pc' = "poll_check"
    /\ t_stop' = FALSE
    /\ l_pc' = "waiting"
    /\ UNCHANGED <<w_pc, w_idx, done_event, inflight, g_interrupted, ThrOthers>>

\* listen_for_stop: input() returns, the event is set, the thread ends
ListenerSets ==
    /\ l_pc = "waiting"
    /\ l_pc' = "none"
    /\ t_stop' = TRUE
    /\ UNCHANGED <<m_pc, w_pc, w_idx, done_event, inflight, g_interrupted, ThrOthers>>

\* while not stop.is_set(): plc.read begins, or the loop is left
MonitorCheck ==
    /\ m_pc = "poll_check"
    /\ IF t_stop
       THEN m_pc' = "menu" /\ UNCHANGED inflight
       ELSE m_pc' = "poll_read" /\ inflight' = inflight \cup {Call("main", "read")}
    /\ UNCHANGED <<w_pc, w_idx, done_event, l_pc, t_stop, g_interrupted, ThrOthers>>

\* the poll's read returns or raises, and the wait goes by or is cut short
MonitorReadEnd ==
    /\ m_pc = "poll_read"
    /\ m_pc' = "poll_check"
    /\ inflight' = inflight \ {Call("main", "read")}
    /\ UNCHANGED <<w_pc, w_idx, done_event, l_pc, t_stop, g_interrupted, ThrOthers>>

\* Ctrl-C: KeyboardInterrupt is raised in the main thread where it stands.
\* No handler below main() catches it; PLCToolkit.run's finally clause runs
\* self.disconnect(); toolkit.py's main has no handler at all.
Interrupt ==
    /\ m_pc \in {"menu", "spin", "reading", "poll_check", "poll_read"}
    /\ g_interrupted' = TRUE
    /\ inflight' = inflight \ {Call("main", "read")}
    /\ m_pc' = IF t_impl = "consolidated" THEN "finally" ELSE "exited"
    /\ UNCHANGED <<w_pc, w_idx, done_event, l_pc, t_stop, ThrOthers>>

\* PLCToolkit.disconnect in run's finally: self.plc.close() begins
FinallyCloseBegin ==
    /\ m_pc = "finally"
    /\ m_pc' = "closing"
    /\ inflight' = inflight \cup {Call("main", "close")}
    /\ UNCHANGED <<w_pc, w_idx, done_event, l_pc, t_stop, g_interrupted, ThrOthers>>

FinallyCloseEnd ==
    /\ m_pc = "closing"
    /\ m_pc' = "exited"
    /\ inflight' = inflight \ {Call("main", "close")}
    /\ UNCHANGED <<w_pc, w_idx, done_event, l_pc, t_stop, g_interrupted, ThrOthers>>

ThrNext ==
    \/ StartWorker
    \/ WorkerCallBegin
    \/ \E raised \in BOOLEAN : WorkerCallEnd(raised)
    \/ WorkerHandler
    \/ \E raised \in BOOLEAN : WorkerCloseEnd(raised)
    \/ WorkerDone
    \/ SpinEnds
    \/ MainReadBegin
    \/ MainReadEnd
    \/ MonitorStart
    \/ ListenerSets
    \/ MonitorCheck
    \/ MonitorReadEnd
    \/ Interrupt
    \/ FinallyCloseBegin
    \/ FinallyCloseEnd

SpecThreads == ThrInit /\ [][ThrNext]_vars

\* C17: at most one protocol call is in flight on the controller
\* connection at any moment.
C17_OneCallInFlight == Cardinality(inflight) <= 1

\* C27: the done event is set on every exit path of the worker thread,
\* whether the target returned or raised, so the caller's waiting loop ends.
C27_DoneEventOnEveryExit ==
    w_pc \in {"finished", "dead"} => done_event

----------------------------------------------------------------------------
(* The export renderers: PLCToolkit.export_all with export_excel, export_json
   and export_xml, and run_exporter with TagExporter's three methods *)

MaxExTags == 2      \* top-level tags in an exported TagSet

\* the characters of the model's names, in code-point order
CodePoints ==
    <<".", ":", "A", "B", "C", "I", "M", "P", "Q", "R", "S", "T", "X", "Y", "_",
      "a", "b", "c", "e", "g", "h", "i", "m", "n", "o", "p", "q", "r", "s", "t",
      "x", "y", "z">>
Ord(c) == CHOOSE i \in 1..Len(CodePoints) : CodePoints[i] = c

RECURSIVE StrLess(_, _)
\* a < b on two str values
StrLess(a, b) ==
    IF b = <<>> THEN FALSE
    ELSE IF a = <<>> THEN TRUE
    ELSE IF a[1] = b[1] THEN StrLess(Tail(a), Tail(b))
    ELSE Ord(a[1]) < Ord(b[1])

RECURSIVE Sorted(_)
\* sorted(d.items()): the keys of a dict are distinct, so the keys decide
Sorted(d) ==
    IF d = <<>> THEN <<>>
    ELSE LET least == CHOOSE i \in 1..Len(d) :
                          \A j \in 1..Len(d) : j # i => StrLess(d[i].k, d[j].k)
         IN <<d[least]>> \o Sorted(SubSeq(d, 1, least - 1) \o SubSeq(d, least + 1, Len(d)))

\* isinstance(info, dict) and 'members' in info
IsStructured(info) == info.kind = "struct"

\* str(info) of a node that is not Structured: a str is itself, anything
\* else becomes its text
StrOfNode(info) == IF info.kind = "leaf" THEN info.ty ELSE Repr(info.ty.of)

\* one worksheet row: ['Tag', 'Full Path', 'Data Type']; '' is <<>>
Row(tag, path, ty) == [tag |-> tag, path |-> path, ty |-> ty]

\* a flatten that stops at the first level
FlattenShallow(parent, prefix, info) == <<Row(<<>>, parent \o prefix, info.ty)>>

RECURSIVE flatten(_, _, _)
RECURSIVE FlattenMembers(_, _, _)

\* flatten(parent, prefix, info): the rows it appends
flatten(parent, prefix, info) ==
    IF IsStructured(info)
    THEN FlattenMembers(parent, prefix, Sorted(info.members))
    ELSE <<Row(<<>>, parent \o prefix, StrOfNode(info))>>

\* for name, sub_info in sorted(..): flatten(parent, f"{prefix}.{name}", sub_info)
FlattenMembers(parent, prefix, items) ==
    IF items = <<>> THEN <<>>
    ELSE flatten(parent, prefix \o <<Dot>> \o items[1].k, items[1].v)
         \o FlattenMembers(parent, prefix, Tail(items))

RECURSIVE ExcelRows(_)
\* the loop over sorted(self.tags.items()): a Structured tag gets a row of
\* its own with an empty path, then its members' rows; any other tag one row
ExcelRows(items) ==
    IF items = <<>> THEN <<>>
    ELSE LET tag_name == items[1].k
             tag_info == items[1].v
         IN (IF IsStructured(tag_info)
             THEN <<Row(tag_name, <<>>, tag_info.ty)>>
                  \o FlattenMembers(tag_name, <<>>, Sorted(tag_info.members))
             ELSE <<Row(tag_name, tag_name, StrOfNode(tag_info))>>)
            \o ExcelRows(Tail(items))

export_excel(self_tags) == ExcelRows(Sorted(self_tags))

\* json.dump(self.tags, f, indent=2, default=str)
export_json(self_tags) == json_dumps(self_tags)

Element(tag, name, dataType, children) ==
    [tag |-> tag, name |-> name, dataType |-> dataType, children |-> children]

RECURSIVE build_xml_node(_, _)
\* build_xml_node(parent, name, info): the element added to parent; members
\* are visited in the dict's own order
build_xml_node(name, info) ==
    IF IsStructured(info)
    THEN Element("Tag", name, info.ty,
                 [i \in 1..Len(info.members) |->
                     build_xml_node(info.members[i].k, info.members[i].v)])
    ELSE Element("Member", name, StrOfNode(info), <<>>)

\* the children of the 'Tags' element
export_xml(self_tags) ==
    LET items == Sorted(self_tags)
    IN [i \in 1..Len(items) |-> build_xml_node(items[i].k, items[i].v)]

ExImpls == {"consolidated", "export_tool"}

ExItems ==
    {Item(nCt, Leaf(Name("INT"))),
     Item(nMt, ResMotor),
     Item(ProgramScoped(<<"M">>, nX), Leaf(Name("DINT"))),
     Item(nX, Struct(Name("UDT"), <<>>)),
     Item(nSp, Leaf(Repr("MOTOR_UDT")))}

DistinctKeys(d) == \A i, j \in 1..Len(d) : d[i].k = d[j].k => i = j

\* non-empty TagSets as discovery leaves them: leaves, nested structures, a
\* structure without members, a program-scoped name
ExTagSets ==
    DbTagSets \cup {d \in SeqsUpTo(ExItems, MaxExTags) : d # <<>> /\ DistinctKeys(d)}

\* TagExporter reads its TagSet back from the tag_data row; PLCToolkit
\* exports self.tags
Loaded(impl, tagset) ==
    IF impl = "export_tool" THEN json_loads(json_dumps(tagset)) ELSE tagset

ExInit ==
    /\ variant = "consolidated"
    /\ DiscOff
    /\ DbInit
    /\ ParseIdle
    /\ ResIdle
    /\ ReadIdle
    /\ PollIdle
    /\ SessIdle
    /\ LogIdle
    /\ ThrIdle
    /\ ChkIdle
    /\ RunIdle
    /\ ex_impl \in ExImpls
    /\ ex_pc = "excel"
    /\ \E tagset \in ExTagSets : ex_tags = Loaded(ex_impl, tagset)
    /\ ex_rows = NotWritten
    /\ ex_json = NotWritten
    /\ ex_xml = NotWritten

ExOthers == <<variant, discVars, dbVars, parseVars, resVars, readVars, pollVars,
              sessVars, logVars, thrVars, chkVars, runVars, ex_impl, ex_tags>>

\* the Excel step: skipped when openpyxl could not be imported
ExportExcel(openpyxl) ==
    /\ ex_pc = "excel"
    /\ ex_pc' = "json"
    /\ ex_rows' = IF openpyxl THEN [written |-> TRUE, doc |-> export_excel(ex_tags)]
                  ELSE ex_rows
    /\ UNCHANGED <<ex_json, ex_xml, ExOthers>>

ExportJson ==
    /\ ex_pc = "json"
    /\ ex_pc' = "xml"
    /\ ex_json' = [written |-> TRUE, doc |-> export_json(ex_tags)]
    /\ UNCHANGED <<ex_rows, ex_xml, ExOthers>>

ExportXml ==
    /\ ex_pc = "xml"
    /\ ex_pc' = "done"
    /\ ex_xml' = [written |-> TRUE, doc |-> export_xml(ex_tags)]
    /\ UNCHANGED <<ex_rows, ex_json, ExOthers>>

ExNext ==
    \/ \E openpyxl \in BOOLEAN : ExportExcel(openpyxl)
    \/ ExportJson
    \/ ExportXml

SpecExport == ExInit /\ [][ExNext]_vars

RECURSIVE LeafRows(_, _, _)
\* one row (top-level tag, full dotted path, type) per Leaf below a node
LeafRows(top, path, node) ==
    IF node.kind = "struct"
    THEN UNION {LeafRows(top, path \o <<Dot>> \o node.members[i].k, node.members[i].v) :
                   i \in 1..Len(node.members)}
    ELSE {Row(top, path, node.ty)}

LeafRowsOf(tagset) ==
    UNION {LeafRows(tagset[i].k, tagset[i].k, tagset[i].v) : i \in 1..Len(tagset)}

\* the (full dotted path, type) leaves of a TagSet
LeafSet(tagset) == {<<r.path, r.ty>> : r \in LeafRowsOf(tagset)}

\* C21: the worksheet holds exactly one row per Leaf of the TagSet and no
\* other row, each row being (top-level tag name, full dotted path, type).
C21_OneRowPerLeaf ==
    ex_rows.written =>
        /\ {ex_rows.doc[i] : i \in 1..Len(ex_rows.doc)} = LeafRowsOf(ex_tags)
        /\ Len(ex_rows.doc) = Cardinality(LeafRowsOf(ex_tags))

\* the leaves read off the worksheet: the rows that carry a full path
LeavesOfRows(rows) ==
    {<<rows[i].path, rows[i].ty>> : i \in {j \in 1..Len(rows) : rows[j].path # <<>>}}

RECURSIVE JsonLeaves(_, _)
\* the leaves read off the JSON document: the strings, under the path of
\* the keys that lead to them through 'members'
JsonLeaves(path, jv) ==
    IF jv.j = "str" THEN {<<path, jv.s>>}
    ELSE IF HasKey(jv.items, KeyMembers)
    THEN LET ms == DictGet(jv.items, KeyMembers).items
         IN UNION {JsonLeaves(path \o <<Dot>> \o ms[i].k, ms[i].v) : i \in 1..Len(ms)}
    ELSE {}

LeavesOfJson(doc) == UNION {JsonLeaves(doc.items[i].k, doc.items[i].v) : i \in 1..Len(doc.items)}

RECURSIVE XmlLeaves(_, _)
\* the leaves read off the XML document: the Member elements, under the
\* path of the name attributes that lead to them
XmlLeaves(path, el) ==
    IF el.tag = "Member" THEN {<<path, el.dataType>>}
    ELSE UNION {XmlLeaves(path \o <<Dot>> \o el.children[i].name, el.children[i]) :
                   i \in 1..Len(el.children)}

LeavesOfXml(doc) == UNION {XmlLeaves(doc[i].name, doc[i]) : i \in 1..Len(doc)}

\* C22: the (full dotted path, type) leaves read off the worksheet (its
\* rows that carry a path), off the JSON document and off the XML document
\* are one set, the leaf set of the TagSet.
C22_ExportsAgree ==
    /\ ex_rows.written => LeavesOfRows(ex_rows.doc) = LeafSet(ex_tags)
    /\ ex_json.written => LeavesOfJson(ex_json.doc) = LeafSet(ex_tags)
    /\ ex_xml.written => LeavesOfXml(ex_xml.doc) = LeafSet(ex_tags)

C22_Witness ==
    /\ ex_pc = "done"
    /\ ex_rows.written
    /\ Len(ex_tags) = 2
    /\ Cardinality(LeafSet(ex_tags)) = 3
    /\ \E i \in 1..2 : ex_tags[i].v = ResMotor

----------------------------------------------------------------------------
(* The stored TagSet read back *)

\* C23: the TagSet a discovery run stored with update_plc_data is what
\* get_tag_data (and TagExporter._load_data_from_db) loads back: the same
\* node kind at every position, the same type strings, the same members.
C23_RoundTrip ==
    stored = "ok" =>
        LET plc_id == SelectPlcId(db_conn.plcs, TheEndpoint)
        IN /\ get_tag_data(db_conn, plc_id) = tags
           /\ get_tag_data(db_disk, plc_id) = tags

C23_Witness ==
    /\ stored = "ok"
    /\ Len(tags) = 2
    /\ \E i \in 1..2 :
          /\ tags[i].v.kind = "struct"
          /\ \E j \in 1..Len(tags[i].v.members) : tags[i].v.members[j].v.kind = "struct"
    /\ \E i \in 1..2 : tags[i].v.kind = "leaf" /\ StartsWith(tags[i].k, ProgramPrefix)

----------------------------------------------------------------------------
(* A tag-checker session: the prompt loop of run_checker and of
   PLCToolkit.run_tag_checker_workflow, on a stored TagSet *)

MaxPasses == 3      \* passes of the prompt loop in one session

ChkImpls == {"checker", "consolidated"}

\* what the user types at the prompt, stripped
ChkInputs ==
    {<<"c">>, <<"C">>, nCt, <<"z">>, Join(<<<<"m", "t">>, <<"s", "P">>>>)}

\* the database after update_plc_data stored the TagSet for the endpoint
Holding(tagset) ==
    update_plc_data(EmptyDb, EmptyDb, FALSE, TheEndpoint, TheInfo, tagset, "none", 1).conn

ChkInit ==
    /\ variant = "consolidated"
    /\ DiscOff
    /\ ParseIdle
    /\ ResIdle
    /\ ReadIdle
    /\ PollIdle
    /\ SessIdle
    /\ LogIdle
    /\ ThrIdle
    /\ ExIdle
    /\ RunIdle
    /\ \E tagset \in ResTagSets :
          /\ db_disk = Holding(tagset)
          /\ db_conn = Holding(tagset)
    /\ db_intxn = FALSE
    /\ g_upserts = <<>>
    /\ g_calls = 0
    /\ g_partial = {}
    /\ c_impl \in ChkImpls
    /\ c_pc = "prompt"
    /\ c_tags = get_tag_data(db_conn, SelectPlcId(db_conn.plcs, TheEndpoint))
    /\ last_tag = <<>>
    /\ c_passes = 0
    /\ g_reads = <<>>
    /\ g_polled = <<>>

ChkOthers == <<variant, discVars, dbVars, parseVars, resVars, readVars, pollVars,
               sessVars, logVars, thrVars, exVars, runVars, c_impl>>

\* the input starts the poller: choice.lower() == 'c' and last_tag
IsContinue(choice) == Lower(choice) = <<"c">> /\ last_tag # <<>>

\* the name a pass hands to plc.read, or no read at all (issued = FALSE)
PassRead(impl, tagset, tag_name_in) ==
    IF impl = "checker"
    THEN LET resolved == IF TagMap(tagset) # <<>>
                         THEN checker_resolve(tagset, tag_name_in)
                         ELSE Found(tag_name_in)
         IN [issued |-> resolved.found, name |-> resolved.path]
    ELSE LET matched_tag == IF tagset # <<>>
                            THEN find_case_insensitive_tag(tagset, tag_name_in)
                            ELSE NotFound
         IN [issued |-> TRUE,
             name |-> IF matched_tag.found THEN matched_tag.path ELSE tag_name_in]

\* a loop that remembers whatever it read
RememberedAlways(last, name, read_outcome) == name

\* if result.error is None: last_successful_tag = final_tag_to_read; a read
\* that raised leaves through the except branch
Remembered(last, name, read_outcome) ==
    IF read_outcome = "value" THEN name ELSE last

\* a pass that keeps the lowered name in the TagSet as a lookup entry
ChkReadCaching(choice, read_outcome) ==
    /\ c_pc = "prompt"
    /\ c_passes < MaxPasses
    /\ ~IsContinue(choice)
    /\ c_passes' = c_passes + 1
    /\ LET pass == PassRead(c_impl, c_tags, choice)
       IN IF pass.issued
          THEN /\ g_reads' = Append(g_reads, [path |-> pass.name, outcome |-> read_outcome])
               /\ last_tag' = Remembered(last_tag, pass.name, read_outcome)
               /\ c_tags' = DictSet(c_tags, Lower(pass.name), Leaf(Name("")))
          ELSE UNCHANGED <<g_reads, last_tag, c_tags>>
    /\ UNCHANGED <<c_pc, g_polled, ChkOthers>>

\* one pass of the prompt loop on a tag name: resolution, plc.read, result
ChkRead(choice, read_outcome) ==
    /\ c_pc = "prompt"
    /\ c_passes < MaxPasses
    /\ ~IsContinue(choice)
    /\ c_passes' = c_passes + 1
    /\ LET pass == PassRead(c_impl, c_tags, choice)
       IN IF pass.issued
          THEN /\ g_reads' = Append(g_reads, [path |-> pass.name, outcome |-> read_outcome])
               /\ last_tag' = Remembered(last_tag, pass.name, read_outcome)
          ELSE UNCHANGED <<g_reads, last_tag>>
    /\ UNCHANGED <<c_pc, c_tags, g_polled, ChkOthers>>

\* the name the poller reads: run_continuous_scan polls the name it is
\* given, monitor_tag resolves it once more
PolledName(impl, tagset, tag_name) ==
    IF impl = "consolidated" /\ tagset # <<>> /\ find_case_insensitive_tag(tagset, tag_name).found
    THEN find_case_insensitive_tag(tagset, tag_name).path
    ELSE tag_name

\* one pass on 'c': the poller runs on the remembered name until it is
\* stopped, and the loop prompts again
ChkContinue(choice) ==
    /\ c_pc = "prompt"
    /\ c_passes < MaxPasses
    /\ IsContinue(choice)
    /\ c_passes' = c_passes + 1
    /\ g_polled' = Append(g_polled, [path |-> PolledName(c_impl, c_tags, last_tag),
                                     after |-> Len(g_reads)])
    /\ UNCHANGED <<c_pc, c_tags, last_tag, g_reads, ChkOthers>>

\* an empty input leaves the loop
ChkLeave ==
    /\ c_pc = "prompt"
    /\ c_pc' = "left"
    /\ UNCHANGED <<c_tags, last_tag, c_passes, g_reads, g_polled, ChkOthers>>

ChkNext ==
    \/ \E choice \in ChkInputs, read_outcome \in ReadOutcomes : ChkRead(choice, read_outcome)
    \/ \E choice \in ChkInputs : ChkContinue(choice)
    \/ ChkLeave

SpecChecker == ChkInit /\ [][ChkNext]_vars

\* C24: no single read, resolution or poll changes the TagSet: the
\* session's TagSet and the stored rows stay as they were, whatever the
\* read outcome.
C24_ReadsLeaveTagSet ==
    [][/\ c_tags' = c_tags
       /\ db_conn' = db_conn
       /\ db_disk' = db_disk]_vars

C24_Witness ==
    /\ c_tags # <<>>
    /\ g_polled # <<>>
    /\ \E i, j \in 1..Len(g_reads) :
          g_reads[i].outcome = "threw" /\ g_reads[j].outcome = "value"
    /\ get_tag_data(db_disk, SelectPlcId(db_disk.plcs, TheEndpoint)) = c_tags

GoodReads(reads) == {i \in 1..Len(reads) : reads[i].outcome = "value"}

\* the path of the most recent read that gave a value without an error
LastGood(reads) ==
    IF GoodReads(reads) = {} THEN <<>> ELSE reads[Max(GoodReads(reads))].path

\* C29: the poller is only started on the path of the most recent single
\* read of the session that returned without an error; a read that
\* reported an error or threw is never offered and does not replace the
\* remembered path.
C29_PollOnlyAfterGoodRead ==
    /\ last_tag = LastGood(g_reads)
    /\ \A i \in 1..Len(g_polled) :
          /\ GoodReads(SubSeq(g_reads, 1, g_polled[i].after)) # {}
          /\ g_polled[i].path = LastGood(SubSeq(g_reads, 1, g_polled[i].after))

C29_Witness ==
    /\ Len(g_reads) = 2
    /\ g_reads[1].outcome = "value"
    /\ g_reads[2].outcome = "inband"
    /\ g_reads[2].path # g_reads[1].path
    /\ Len(g_polled) = 1
    /\ g_polled[1].after = 2

----------------------------------------------------------------------------
(* Path resolution: names that differ only in case, and stored paths *)

RECURSIVE FirstWalk(_, _)
\* the walk that takes, for every segment, the first entry matching it
\* ignoring case and goes on below that same entry
FirstWalk(items, segs) ==
    IF Matches(Keys(items), segs[1]) = {} THEN [ok |-> FALSE, chain |-> <<>>]
    ELSE LET name == FirstMatch(Keys(items), segs[1])
             node == DictGet(items, name)
         IN IF Len(segs) = 1 THEN [ok |-> TRUE, chain |-> <<name>>]
            ELSE IF node.kind # "struct" THEN [ok |-> FALSE, chain |-> <<>>]
            ELSE LET rest == FirstWalk(node.members, Tail(segs))
                 IN [ok |-> rest.ok,
                     chain |-> IF rest.ok THEN <<name>> \o rest.chain ELSE <<>>]

\* C25: where names differ only in case, resolution follows the first
\* entry encountered throughout: the name returned for a segment and the
\* node searched for the next segments are those of that one entry.
C25_FirstMatchOnTies ==
    (res_out.done /\ ~NoCaseTies(res_tags)) =>
        LET walk == FirstWalk(res_tags, Split(res_path))
        IN /\ res_out.found <=> walk.ok
           /\ res_out.found => res_out.path = Join(walk.chain)

\* the stored dotted paths: a top-level key and any chain of member names
StoredPaths(tagset) ==
    {Join(chain) : chain \in UNION {NameChains(tagset, n) : n \in 1..MaxSegs}}

\* C26: the as-stored dotted path of a tag or member, typed in any case,
\* resolves to that as-stored path (in a TagSet whose names are unique
\* ignoring case).
C26_StoredPathsResolve ==
    (res_out.done /\ NoCaseTies(res_tags)) =>
        \A stored_path \in StoredPaths(res_tags) :
            Lower(stored_path) = Lower(res_path) => res_out = Found(stored_path)

----------------------------------------------------------------------------
(* One run of connect and discovery with its clean-up: PLCToolkit.run,
   ABTagDiscovery.run, and connect_and_discover as toolkit.py's main calls it *)

MaxRuns == 2        \* runs in one behaviour

RunImpls == {"consolidated", "discovery_tool", "toolkit"}
DiscoverResults == {"ok", "open_fails", "list_fails", "info_fails"}

RunInit ==
    /\ variant = "consolidated"
    /\ DiscOff
    /\ DbInit
    /\ ParseIdle
    /\ ResIdle
    /\ ReadIdle
    /\ PollIdle
    /\ LogIdle
    /\ ThrIdle
    /\ ExIdle
    /\ ChkIdle
    /\ s_impl \in RunImpls
    /\ s_plc = "none"
    /\ s_connected = FALSE
    /\ g_ops = <<>>
    /\ r_pc = "start"
    /\ r_runs = 1
    /\ r_failed = FALSE
    /\ g_opened = FALSE

RunOthers == <<variant, discVars, dbVars, parseVars, resVars, readVars, pollVars,
               logVars, thrVars, exVars, chkVars, s_impl>>

\* if not self.connect(..): return  -- inside the try of run()
RunConnect(result) ==
    /\ r_pc = "start"
    /\ s_impl \in SessImpls
    /\ SessConnect(result)
    /\ r_pc' = IF result = "ok" THEN "connected" ELSE "finally"
    /\ r_failed' = (result # "ok")
    /\ g_opened' = (result # "open_fails")
    /\ UNCHANGED r_runs

\* the discovery of the run: it returns, or fails; either way the run goes
\* on to its finally clause (PLCToolkit.run when the menu is left)
RunDiscover(ok) ==
    /\ r_pc = "connected"
    /\ r_pc' = "finally"
    /\ r_failed' = ~ok
    /\ UNCHANGED <<r_runs, g_opened, sessVars, RunOthers>>

\* a run that returns without its clean-up
RunReturnsAtOnce(close_raises) ==
    /\ r_pc = "finally"
    /\ r_pc' = "returned"
    /\ UNCHANGED <<r_runs, r_failed, g_opened, sessVars, RunOthers>>

\* finally: self.disconnect()
RunFinally(close_raises) ==
    /\ r_pc = "finally"
    /\ SessDisconnect(close_raises)
    /\ r_pc' = "returned"
    /\ UNCHANGED <<r_runs, r_failed, g_opened>>

\* connect_and_discover(ip, slot, results): open, discovery, get_plc_info in
\* one try; the except branch closes a driver that reports connected.
\* results['plc'] is set once the discovery is through.
ConnectAndDiscover(result, close_raises) ==
    /\ r_pc = "start"
    /\ s_impl = "toolkit"
    /\ Len(g_ops) < MaxOps
    /\ close_raises => result \in {"list_fails", "info_fails"}
    /\ s_plc' = IF result \in {"ok", "info_fails"} THEN "driver" ELSE "none"
    /\ s_connected' = (result = "ok")
    /\ g_ops' = Append(g_ops, Op("connect_and_discover", FALSE, close_raises,
                                 result \in {"list_fails", "info_fails"}))
    /\ r_pc' = "returned"
    /\ r_failed' = (result # "ok")
    /\ g_opened' = (result # "open_fails")
    /\ UNCHANGED <<r_runs, RunOthers>>

\* the next run: a new session object; toolkit.py's main comes back to its
\* loop after the tools menu closed the connection
RunAgain ==
    /\ r_pc = "returned"
    /\ r_runs < MaxRuns
    /\ r_pc' = "start"
    /\ r_runs' = r_runs + 1
    /\ r_failed' = FALSE
    /\ g_opened' = FALSE
    /\ s_plc' = "none"
    /\ s_connected' = FALSE
    /\ UNCHANGED <<g_ops, RunOthers>>

RunNext ==
    \/ \E result \in ConnectResults : RunConnect(result)
    \/ \E ok \in BOOLEAN : RunDiscover(ok)
    \/ \E close_raises \in BOOLEAN : RunFinally(close_raises)
    \/ \E result \in DiscoverResults, close_raises \in BOOLEAN :
          ConnectAndDiscover(result, close_raises)
    \/ RunAgain

SpecRun == RunInit /\ [][RunNext]_vars

\* C28: when a run's connect or discovery failed, no connection is open
\* once the run has returned.
C28_NoLeakOnFailure ==
    (r_pc = "returned" /\ r_failed) => ~s_connected

C28_Witness ==
    /\ r_pc = "returned"
    /\ r_failed
    /\ g_opened
    /\ s_impl = "discovery_tool"
    /\ LastOp.op = "disconnect" /\ LastOp.was_open /\ LastOp.close_called


----------------------------------------------------------------------------
(* A discovery run that fails *)

\* the run has ended in an error: discover_tags / connect_and_discover
\* raised, or the update_plc_data call that ends the run raised
RunFailed == outcome = "failure" \/ stored = "failed"

\* C30: a discovery run that fails with an exception leaves the session's
\* in-memory TagSet and the stored ControllerRecord and TagSet rows of the
\* endpoint as they were before the run (here: no TagSet in memory and no
\* rows, the state a new session on a new database starts from); nothing
\* partial is stored.
C30_FailedRunStoresNothing ==
    RunFailed => /\ tags = <<>>
                 /\ db_conn = EmptyDb
                 /\ db_disk = EmptyDb

============================================================================
